---- MODULE Spec2Model ----
(***************************************************************************)
(* The source control history view: SCMHistoryViewModel (the per           *)
(* repository page cache over a history provider) and SCMHistoryViewPane   *)
(* (the tree operations that drive it), with the git history provider as   *)
(* the provider behind provideHistoryItems.                                *)
(***************************************************************************)
EXTENDS Integers, Sequences, FiniteSets, Bags, TLC

(* ------------------------------ bounds -------------------------------- *)

\* Most changes of the environment in one behaviour: commits, changes of a
\* history provider or its current group, of the page size setting, of the
\* active or the selected repository, and repositories closed.
MaxEnvSteps == 1

\* Most getHistoryItems calls awaiting their provider at one time.
MaxInFlight == 2
\* load-more triggers that may wait in the pane's load-more sequencer
MaxLoadMoreQueued == 2
\* refresh() calls that may wait in the throttler for one follow-up update
MaxUpdateCallers == 2
\* Most ids in the list given to resolveHistoryItemGroupCommonAncestor.
MaxGroupIds == 2
\* Most git status runs (onDidRunGitStatus events) in one behaviour.
MaxStatusEvents == 3
\* Most code block actions run in one behaviour.
MaxCodeBlockActions == 2
\* Most characters in a line of a code block given to reindent.
MaxLineLen == 3
\* Most refresh() calls of the pane awaiting their tree update at once.
MaxRefreshesPending == 2
\* Most mapped edits providers registered for the active model.
MaxProviders == 2

(* ----------------------------- constants ------------------------------ *)

\* clamp(..., 1, 1000) of scm.graph.pageSize
MinPageSize == 1
MaxPageSize == 1000

\* Values of the scm.graph.pageSize setting: below, inside and above the clamp.
PageSizes == {0, 2, 1001}

Repos == {"r1", "r2"}
NoRepo == "norepo"

\* A history item group is known by its id; NoGroup is an undefined
\* currentHistoryItemGroup, NoProvider an undefined historyProvider.
Groups == {"main", "dev"}
NoGroup == "nogroup"
NoProvider == "noprovider"

\* Names (and ids) of history item groups as the provider builds them from
\* git refs, a local branch and two remote ones; a ref name never holds "*".
GroupNames == {"main", "origin/main", "origin/dev"}

\* Values of _historyItemGroupFilter: 'all', 'auto', or "ids" for a string[].
Filters == {"all", "auto", "ids"}

\* Commit hashes git answers with; NoAncestor is an undefined result.
Hashes == {"h1"}
NoAncestor == "undefined"

VARIABLES
    repositories,        \* ISCMService.repositories: the tracked repositories
    selectedRepository,  \* SCMHistoryViewModel._selectedRepository
    activeRepository,    \* ISCMViewService.activeRepository
    historyProvider,     \* per repository: provider.historyProvider and its currentHistoryItemGroup
    commits,             \* per repository: the number of commits in its log
    pageSize,            \* the scm.graph.pageSize setting
    state,               \* SCMHistoryViewModel._state
    inflight,            \* bag of getHistoryItems calls suspended at await provideHistoryItems
    envSteps,            \* the number of changes of the environment so far
    last,                \* what the last step did: the call made, the list returned
    first,               \* per repository: the first list returned since the last invalidation
    cleared,             \* per repository: clearRepositoryState ran and no getHistoryItems since
    overlap,             \* per repository: a suspended call has overlapped another one
    repositoryLoadMore,        \* SCMHistoryViewPane._repositoryLoadMore
    treeLoadMoreSequencer,     \* the tasks queued by _loadMoreCallback, oldest first
    updateChildrenThrottler,   \* SCMHistoryViewPane._updateChildrenThrottler
    treeOperationSequencer,    \* the tree operations queued, oldest first
    treeLoadMoreElement,       \* the repository of the tree's load-more row, if any
    treeChildren,              \* the children the tree shows, as getChildren returned them
    refreshOwed,               \* refresh() was called; no clearRepositoryState, no fetch from skip 0 since
    historyItemGroup,          \* the ISCMHistoryItemGroup given to _getGraphColorMap; the provider's current group
    historyItemGroupFilter,    \* SCMHistoryViewModel._historyItemGroupFilter
    colorMap,                  \* the map the last _getGraphColorMap call returned
    commonAncestor,            \* the last resolveHistoryItemGroupCommonAncestor call: its position and result
    provided,                  \* the last provideHistoryItems call made of the git provider itself: its options and result
    HEAD,                      \* repository.HEAD: the branch checked out, or NoHead
    statusRuns,                \* the onDidRunGitStatus runs suspended at await resolveHEADMergeBase()
    publishedGroup,            \* GitHistoryProvider._currentHistoryItemGroup
    statusFailed,              \* an onDidRunGitStatus run has thrown
    statusEvents,              \* the number of git status runs so far
    effects,                   \* what the code block actions have done: clipboard writes, edits, editors opened, terminal commands, reports
    actionsRun,                \* the number of code block actions run so far
    codeBlockContent,          \* reindent's codeBlockContent
    formattingOptions,         \* model.getFormattingOptions(): tabSize and insertSpaces
    selectionLine,             \* model.getLineContent(seletionStartLine)
    reindented,                \* what reindent returned, or NoCode
    reindentedAgain,           \* what reindent returned for what it had returned, or NoCode
    currentGroup,              \* historyProvider.currentHistoryItemGroup as the pane's autorun reads it
    autorunDependencies,       \* the observables the HistoryItemGroup change autorun read when it last ran
    scrollTop,                 \* this._tree.scrollTop
    titleDescription,          \* the description of the view's title: "OUTDATED" or undefined
    refreshesPending,          \* the refresh() calls awaiting _updateChildren(true)
    applyInEditor              \* the last computeEdits call of Apply in Editor: its position and result

vmVars == <<repositories, selectedRepository, activeRepository, historyProvider,
            commits, pageSize, state, inflight, envSteps, last, first, cleared, overlap>>

paneVars == <<repositoryLoadMore, treeLoadMoreSequencer, updateChildrenThrottler,
              treeOperationSequencer, treeLoadMoreElement, treeChildren,
              refreshOwed>>

providerVars == <<provided>>

gitStatusVars == <<HEAD, statusRuns, publishedGroup, statusFailed, statusEvents>>

codeBlockVars == <<effects, actionsRun>>

reindentVars == <<codeBlockContent, formattingOptions, selectionLine, reindented, reindentedAgain>>

applyVars == <<applyInEditor>>

chatVars == <<codeBlockVars, reindentVars, applyVars>>

autorunVars == <<currentGroup, autorunDependencies, scrollTop, titleDescription, refreshesPending>>

restVars == <<providerVars, gitStatusVars, chatVars, autorunVars>>

graphVars == <<historyItemGroup, historyItemGroupFilter, colorMap, commonAncestor, restVars>>

(* ------------------------------ helpers ------------------------------- *)

Min(a, b) == IF a < b THEN a ELSE b
Max(a, b) == IF a > b THEN a ELSE b

IsPrefix(s, t) == Len(s) <= Len(t) /\ SubSeq(t, 1, Len(s)) = s

\* Iterable.first(this._scmService.repositories)
FirstRepository(S) ==
    IF S = {} THEN NoRepo
    ELSE IF "r1" \in S THEN "r1" ELSE "r2"

\* clamp(value, min, max) = Math.min(Math.max(value, min), max)
clamp(value, min, max) == Min(Max(value, min), max)

\* The repository's log, newest commit first: commit n, n-1, ..., 1.
Log(n) == [i \in 1..n |-> n - i + 1]

\* repository.log({ maxEntries: limit, skip }): the window of the log.
LogWindow(n, skip, limit) ==
    IF skip >= n THEN <<>>
    ELSE SubSeq(Log(n), skip + 1, Min(n, skip + limit))

(* ----------------------- SCMHistoryViewModel -------------------------- *)

\* HistoryItemState; present = FALSE is a repository without a _state entry.
NoState ==
    [present |-> FALSE, currentHistoryItemGroup |-> NoGroup, items |-> <<>>, loadMore |-> FALSE]

\* _graphRepository that follows the active repository whatever is selected.
GraphRepositoryActive == activeRepository

\* _graphRepository: the selected repository, or the active one under 'auto'.
GraphRepository ==
    IF selectedRepository # "auto" THEN selectedRepository ELSE activeRepository

\* repository = latestChangedValue([_firstRepository, _graphRepository]); the
\* view model is created with a repository tracked, so _firstRepository is
\* constant and the graph repository is the latest changed value.
Repository == GraphRepository

\* historyProvider?.currentHistoryItemGroup.get()
CurrentHistoryItemGroup(r) ==
    IF historyProvider[r] = NoProvider THEN NoGroup ELSE historyProvider[r]

\* state?.currentHistoryItemGroup ?? historyProvider?.currentHistoryItemGroup.get()
ResolvedGroup(r) ==
    IF state[r].present THEN state[r].currentHistoryItemGroup ELSE CurrentHistoryItemGroup(r)

\* historyItemGroupFilter under the 'auto' filter: the current group's ids.
HistoryItemGroupFilter(r) ==
    IF CurrentHistoryItemGroup(r) = NoGroup THEN <<>> ELSE <<CurrentHistoryItemGroup(r)>>

(* --------------------------- observation ------------------------------ *)

\* What the last step did, for the properties: op is "early" (getHistoryItems
\* returned [] for lack of a repository, provider or group), "hit" (it
\* returned the cached items), "provide" (it called provideHistoryItems and
\* suspended), "resolve" / "reject" (a suspended call completed), or "none".
NoEvent ==
    [op |-> "none", repo |-> NoRepo, items |-> <<>>, page |-> <<>>,
     skip |-> 0, limit |-> 0, before |-> <<>>, hadEntry |-> FALSE,
     afterClear |-> FALSE, overlapped |-> FALSE]

NoFirst == [set |-> FALSE, items |-> <<>>, cached |-> FALSE, later |-> FALSE]

\* The suspended calls of repository r.
CallsFor(q, r) == {c \in BagToSet(q) : c.repo = r}

\* The first list a getHistoryItems call returns for r since the last
\* clearRepositoryState, setLoadMore(r, true) or close of r, recorded when no
\* other call for r is still suspended; cached says that the list is that of
\* a cache entry the call found or stored, later that a later call returned.
RecordFirst(r, items, cached, q) ==
    IF r = NoRepo THEN first
    ELSE IF first[r].set THEN [first EXCEPT ![r].later = TRUE]
    ELSE IF CallsFor(q, r) = {}
         THEN [first EXCEPT ![r] = [set |-> TRUE, items |-> items,
                                    cached |-> cached, later |-> FALSE]]
         ELSE first

(* ---------------------- getHistoryItems, step by step ----------------- *)

\* if (!state || state.loadMore)
NeedsFetchAlways(st) == TRUE
NeedsFetch(st) == ~st.present \/ st.loadMore

\* const existingHistoryItems = state?.items ?? []
ExistingHistoryItemsNone(st) == <<>>
ExistingHistoryItems(st) == IF st.present THEN st.items ELSE <<>>

\* const limit = clamp(getValue('scm.graph.pageSize'), 1, 1000)
PageLimitUnclamped == pageSize
PageLimit == clamp(pageSize, MinPageSize, MaxPageSize)

\* items: [...existingHistoryItems, ...historyItems]
NewItemsPrepended(existing, page) == page \o existing
NewItems(existing, page) == existing \o page

\* state = { ...state, items }: the reload mark of the entry read is kept.
NewStateKeepingLoadMore(c, page) ==
    [present |-> TRUE,
     currentHistoryItemGroup |-> c.currentHistoryItemGroup,
     items |-> NewItems(c.existingHistoryItems, page),
     loadMore |-> c.hadEntry]

\* state = { currentHistoryItemGroup, items, loadMore: false }
NewState(c, page) ==
    [present |-> TRUE,
     currentHistoryItemGroup |-> c.currentHistoryItemGroup,
     items |-> NewItems(c.existingHistoryItems, page),
     loadMore |-> FALSE]

\* GitHistoryProvider.provideHistoryItems: [] without a current group, else
\* the window of the log the options select.
ProvideHistoryItems(c) ==
    IF historyProvider[c.repo] \in Groups
    THEN LogWindow(commits[c.repo], c.skip, c.limit)
    ELSE <<>>

\* getHistoryItems that stores an empty entry before it returns [].
GetHistoryItemsEmptyCaching ==
    LET r == Repository IN
    /\ IF r = NoRepo
       THEN TRUE
       ELSE historyProvider[r] = NoProvider \/ ResolvedGroup(r) = NoGroup
    /\ last' = [NoEvent EXCEPT !.op = "early", !.repo = r]
    /\ state' = IF r = NoRepo THEN state
                ELSE [state EXCEPT ![r] = [NoState EXCEPT !.present = TRUE]]
    /\ first' = RecordFirst(r, <<>>, FALSE, inflight)
    /\ cleared' = IF r = NoRepo THEN cleared ELSE [cleared EXCEPT ![r] = FALSE]
    /\ UNCHANGED <<repositories, selectedRepository, activeRepository, historyProvider,
                   commits, pageSize, inflight, envSteps, overlap>>

\* getHistoryItems returns [] : no repository, no history provider, or no
\* current group (neither cached nor the provider's).
GetHistoryItemsEmpty ==
    LET r == Repository IN
    /\ IF r = NoRepo
       THEN TRUE
       ELSE historyProvider[r] = NoProvider \/ ResolvedGroup(r) = NoGroup
    /\ last' = [NoEvent EXCEPT !.op = "early", !.repo = r,
                               !.afterClear = IF r = NoRepo THEN FALSE ELSE cleared[r]]
    /\ first' = RecordFirst(r, <<>>, FALSE, inflight)
    /\ cleared' = IF r = NoRepo THEN cleared ELSE [cleared EXCEPT ![r] = FALSE]
    /\ UNCHANGED <<repositories, selectedRepository, activeRepository, historyProvider,
                   commits, pageSize, state, inflight, envSteps, overlap>>

\* getHistoryItems finds a cache entry that is not marked for reload and
\* returns its items without calling the provider.
GetHistoryItemsCached ==
    LET r == Repository IN
    /\ r # NoRepo
    /\ historyProvider[r] # NoProvider
    /\ ResolvedGroup(r) # NoGroup
    /\ ~NeedsFetch(state[r])
    /\ last' = [NoEvent EXCEPT !.op = "hit", !.repo = r, !.items = state[r].items,
                               !.before = state[r].items, !.hadEntry = TRUE,
                               !.afterClear = cleared[r]]
    /\ first' = RecordFirst(r, state[r].items, TRUE, inflight)
    /\ cleared' = [cleared EXCEPT ![r] = FALSE]
    /\ UNCHANGED <<repositories, selectedRepository, activeRepository, historyProvider,
                   commits, pageSize, state, inflight, envSteps, overlap>>

\* getHistoryItems finds no entry, or one marked for reload: it calls
\* provideHistoryItems({ historyItemGroupIds, limit, skip }) and suspends.
GetHistoryItemsFetch ==
    LET r == Repository IN
    /\ r # NoRepo
    /\ historyProvider[r] # NoProvider
    /\ ResolvedGroup(r) # NoGroup
    /\ NeedsFetch(state[r])
    /\ BagCardinality(inflight) < MaxInFlight
    /\ LET existing == ExistingHistoryItems(state[r])
           c == [repo |-> r,
                 currentHistoryItemGroup |-> ResolvedGroup(r),
                 existingHistoryItems |-> existing,
                 historyItemGroupIds |-> HistoryItemGroupFilter(r),
                 limit |-> PageLimit,
                 skip |-> Len(existing),
                 before |-> state[r].items,
                 hadEntry |-> state[r].present,
                 afterClear |-> cleared[r]]
       IN /\ inflight' = inflight (+) SetToBag({c})
          /\ overlap' = [overlap EXCEPT ![r] = @ \/ CallsFor(inflight, r) # {}]
          /\ last' = [NoEvent EXCEPT !.op = "provide", !.repo = r,
                                     !.skip = c.skip, !.limit = c.limit,
                                     !.before = c.before, !.hadEntry = c.hadEntry,
                                     !.afterClear = c.afterClear,
                                     !.overlapped = overlap'[r]]
    /\ cleared' = [cleared EXCEPT ![r] = FALSE]
    /\ UNCHANGED <<repositories, selectedRepository, activeRepository, historyProvider,
                   commits, pageSize, state, envSteps, first>>

\* The rest of getHistoryItems once provideHistoryItems has resolved with
\* page: the cache write, and the list returned.
ResolveWith(c, page) ==
    LET st == NewState(c, page)
        q == inflight (-) SetToBag({c})
    IN /\ state' = [state EXCEPT ![c.repo] = st]
       /\ inflight' = q
       /\ overlap' = [overlap EXCEPT ![c.repo] = @ /\ CallsFor(q, c.repo) # {}]
       /\ last' = [NoEvent EXCEPT !.op = "resolve", !.repo = c.repo, !.items = st.items,
                                  !.page = page, !.skip = c.skip, !.limit = c.limit,
                                  !.before = c.before, !.hadEntry = c.hadEntry,
                                  !.afterClear = c.afterClear,
                                  !.overlapped = overlap[c.repo]]
       /\ first' = RecordFirst(c.repo, st.items, TRUE, q)
       /\ UNCHANGED <<repositories, selectedRepository, activeRepository, historyProvider,
                      commits, pageSize, envSteps, cleared>>

\* provideHistoryItems resolves with the page of the log.
ProvideResolve(c) ==
    /\ BagIn(c, inflight)
    /\ ResolveWith(c, ProvideHistoryItems(c))

\* provideHistoryItems resolves with no items: the git provider caught a
\* failure of getCommit, getEmptyTree or log and returned [] (or a provider
\* returned undefined, which ?? [] turns into []).
ProvideResolveEmpty(c) ==
    /\ BagIn(c, inflight)
    /\ ResolveWith(c, <<>>)

\* provideHistoryItems rejects, and what there is gets cached as the result.
ProvideRejectCaching(c) ==
    /\ BagIn(c, inflight)
    /\ state' = [state EXCEPT ![c.repo] = NewState(c, <<>>)]
    /\ inflight' = inflight (-) SetToBag({c})
    /\ overlap' = [overlap EXCEPT ![c.repo] = @ /\ CallsFor(inflight', c.repo) # {}]
    /\ last' = [NoEvent EXCEPT !.op = "reject", !.repo = c.repo, !.skip = c.skip,
                               !.limit = c.limit, !.before = c.before,
                               !.hadEntry = c.hadEntry]
    /\ UNCHANGED <<repositories, selectedRepository, activeRepository, historyProvider,
                   commits, pageSize, envSteps, first, cleared>>

\* provideHistoryItems rejects: the await throws, getHistoryItems rejects and
\* the lines after the await do not run.
ProvideReject(c) ==
    /\ BagIn(c, inflight)
    /\ inflight' = inflight (-) SetToBag({c})
    /\ overlap' = [overlap EXCEPT ![c.repo] = @ /\ CallsFor(inflight', c.repo) # {}]
    /\ last' = [NoEvent EXCEPT !.op = "reject", !.repo = c.repo, !.skip = c.skip,
                               !.limit = c.limit, !.before = c.before,
                               !.hadEntry = c.hadEntry, !.afterClear = c.afterClear,
                               !.overlapped = overlap[c.repo]]
    /\ UNCHANGED <<repositories, selectedRepository, activeRepository, historyProvider,
                   commits, pageSize, state, envSteps, first, cleared>>

(* ------------------- the other view model operations ------------------ *)

\* setLoadMore(repository, loadMore) that stores an entry even when the
\* repository has none.
SetLoadMoreCreatingEntry(r, loadMore) ==
    /\ state' = [state EXCEPT ![r] = [state[r] EXCEPT !.present = TRUE,
                                                      !.loadMore = loadMore]]
    /\ first' = IF loadMore THEN [first EXCEPT ![r] = NoFirst] ELSE first
    /\ last' = NoEvent
    /\ UNCHANGED <<repositories, selectedRepository, activeRepository, historyProvider,
                   commits, pageSize, inflight, envSteps, cleared, overlap>>

\* setLoadMore(repository, loadMore)
SetLoadMore(r, loadMore) ==
    /\ state' = IF state[r].present
                THEN [state EXCEPT ![r] = [state[r] EXCEPT !.loadMore = loadMore]]
                ELSE state
    /\ first' = IF loadMore THEN [first EXCEPT ![r] = NoFirst] ELSE first
    /\ last' = NoEvent
    /\ UNCHANGED <<repositories, selectedRepository, activeRepository, historyProvider,
                   commits, pageSize, inflight, envSteps, cleared, overlap>>

\* clearRepositoryState() that leaves the entry in the map.
ClearRepositoryStateKeepingEntry ==
    LET r == Repository IN
    /\ IF r = NoRepo
       THEN UNCHANGED <<first, cleared>>
       ELSE /\ first' = [first EXCEPT ![r] = NoFirst]
            /\ cleared' = [cleared EXCEPT ![r] = CallsFor(inflight, r) = {}]
    /\ last' = NoEvent
    /\ UNCHANGED <<repositories, selectedRepository, activeRepository, historyProvider,
                   commits, pageSize, state, inflight, envSteps, overlap>>

\* clearRepositoryState()
ClearRepositoryState ==
    LET r == Repository IN
    /\ IF r = NoRepo
       THEN UNCHANGED <<state, first, cleared>>
       ELSE /\ state' = [state EXCEPT ![r] = NoState]
            /\ first' = [first EXCEPT ![r] = NoFirst]
            /\ cleared' = [cleared EXCEPT ![r] = CallsFor(inflight, r) = {}]
    /\ last' = NoEvent
    /\ UNCHANGED <<repositories, selectedRepository, activeRepository, historyProvider,
                   commits, pageSize, inflight, envSteps, overlap>>

\* setRepository(repository | 'auto')
SetRepository(sel) ==
    /\ sel # selectedRepository
    /\ envSteps < MaxEnvSteps
    /\ envSteps' = envSteps + 1
    /\ selectedRepository' = sel
    /\ last' = NoEvent
    /\ UNCHANGED <<repositories, activeRepository, historyProvider, commits, pageSize,
                   state, inflight, first, cleared, overlap>>

\* onDidRemoveRepository and the closed repository cleanup autorun.
CloseRepository(r) ==
    /\ r \in repositories
    /\ envSteps < MaxEnvSteps
    /\ envSteps' = envSteps + 1
    /\ repositories' = repositories \ {r}
    /\ selectedRepository' =
          IF Repository = r
          THEN IF FirstRepository(repositories \ {r}) = NoRepo
               THEN "auto"
               ELSE FirstRepository(repositories \ {r})
          ELSE selectedRepository
    /\ state' = [state EXCEPT ![r] = NoState]
    /\ first' = [first EXCEPT ![r] = NoFirst]
    /\ cleared' = [cleared EXCEPT ![r] = FALSE]
    /\ last' = NoEvent
    /\ UNCHANGED <<activeRepository, historyProvider, commits, pageSize, inflight, overlap>>

(* --------------------------- environment ------------------------------ *)

\* The SCM view service changes its active repository.
ActiveRepositoryChange(r) ==
    /\ r # activeRepository
    /\ envSteps < MaxEnvSteps
    /\ envSteps' = envSteps + 1
    /\ activeRepository' = r
    /\ last' = NoEvent
    /\ UNCHANGED <<repositories, selectedRepository, historyProvider, commits, pageSize,
                   state, inflight, first, cleared, overlap>>

\* The provider's history provider or its currentHistoryItemGroup changes
\* (git status ran: checkout, detached HEAD, provider registered or removed).
HistoryProviderChange(r, v) ==
    /\ r \in repositories
    /\ v # historyProvider[r]
    /\ envSteps < MaxEnvSteps
    /\ envSteps' = envSteps + 1
    /\ historyProvider' = [historyProvider EXCEPT ![r] = v]
    /\ last' = NoEvent
    /\ UNCHANGED <<repositories, selectedRepository, activeRepository, commits, pageSize,
                   state, inflight, first, cleared, overlap>>

\* A commit is added to the repository's log.
Commit(r) ==
    /\ r \in repositories
    /\ envSteps < MaxEnvSteps
    /\ envSteps' = envSteps + 1
    /\ commits' = [commits EXCEPT ![r] = @ + 1]
    /\ last' = NoEvent
    /\ UNCHANGED <<repositories, selectedRepository, activeRepository, historyProvider,
                   pageSize, state, inflight, first, cleared, overlap>>

\* The scm.graph.pageSize setting changes.
ConfigurationChange(v) ==
    /\ v # pageSize
    /\ envSteps < MaxEnvSteps
    /\ envSteps' = envSteps + 1
    /\ pageSize' = v
    /\ last' = NoEvent
    /\ UNCHANGED <<repositories, selectedRepository, activeRepository, historyProvider,
                   commits, state, inflight, first, cleared, overlap>>

(* ------------------------- SCMHistoryViewPane ------------------------- *)

\* A step of the pane that leaves the view model alone.
ViewModelUntouched ==
    /\ last' = NoEvent
    /\ UNCHANGED <<repositories, selectedRepository, activeRepository, historyProvider,
                   commits, pageSize, state, inflight, envSteps, first, cleared, overlap>>

\* A task of _treeLoadMoreSequencer: pc is "queued" until the sequencer runs
\* it and "awaiting" while it awaits _updateChildren(); wait names the
\* throttler promise it awaits; late says that it was triggered while an
\* earlier load-more task was awaiting its tree update.
LoadMoreTask(r, late) == [repo |-> r, pc |-> "queued", wait |-> "none", late |-> late]

\* A task of _treeOperationSequencer: tree.setInput, or the tree update of
\* _updateChildren(clearCache); pc is "queued", "started" (the cache is
\* cleared if asked, getChildren not called yet) or "fetching" (getChildren
\* is suspended in getHistoryItems).
TreeOperation(kind, clearCache) == [kind |-> kind, clearCache |-> clearCache, pc |-> "queued"]

\* Throttler: activePromise is set while a factory's promise is pending;
\* queuedPromiseFactory is the one factory kept for the follow-up run, the
\* most recently queued ("clearCache" or "keepCache", from its closure);
\* activeCallers and queuedCallers count the callers of queue() that await
\* the active promise and the promise of the follow-up run.
ThrottlerIdle ==
    [activePromise |-> FALSE, queuedPromiseFactory |-> "none",
     activeCallers |-> 0, queuedCallers |-> 0]

\* Sequencer: tasks run one after another in the order queued, so only the
\* oldest task can be started, once the tasks before it have finished.
SequencerNext(q, i) == i = 1 /\ q # <<>>

\* lastHistoryItem.historyItemViewModel.outputSwimlanes.length > 0: the last
\* item shown has a parent still to be drawn, it is not the root commit.
HasOutputSwimlanes(item) == item > 1

\* getChildren: the load-more row follows the items when there is a
\* repository and the last item has output swimlanes.
LoadMoreElement(r, items) ==
    IF r # NoRepo /\ items # <<>> /\ HasOutputSwimlanes(items[Len(items)])
    THEN r ELSE NoRepo

\* getHistoryItems: the tree elements returned, one per item of the entry in
\* the order of the entry, each with the repository of the call.
HistoryItemViewModels(r, items) ==
    [i \in DOMAIN items |->
        [type |-> "historyItemViewModel", repository |-> r, historyItem |-> items[i]]]

\* The load-more tree element of repository r.
HistoryItemLoadMore(r) ==
    [type |-> "historyItemLoadMore", repository |-> r, historyItem |-> 0]

\* getChildren that adds the load-more element after any last history item,
\* whatever its output swimlanes.
GetChildrenWithoutSwimlaneTest(r, historyItems) ==
    historyItems \o
    (IF r # NoRepo /\ historyItems # <<>> THEN <<HistoryItemLoadMore(r)>> ELSE <<>>)

\* getChildren for the view model: the history items, then the load-more
\* element when repository r is defined, there is a last history item and
\* its output swimlanes are not empty.
GetChildren(r, historyItems) ==
    historyItems \o
    (IF /\ r # NoRepo
        /\ historyItems # <<>>
        /\ HasOutputSwimlanes(historyItems[Len(historyItems)].historyItem)
     THEN <<HistoryItemLoadMore(r)>>
     ELSE <<>>)

\* _updateChildren(clearCache) that queues its tree operation at once,
\* whether or not an update is running.
UpdateChildrenUnthrottled(clearCache) ==
    /\ updateChildrenThrottler' =
          [updateChildrenThrottler EXCEPT !.activePromise = TRUE,
                                          !.activeCallers = @ + 1]
    /\ treeOperationSequencer' =
          Append(treeOperationSequencer, TreeOperation("updateChildren", clearCache))

\* _updateChildren(clearCache) whose tree operation is put ahead of the
\* operations already in the sequencer.
UpdateChildrenJumpingQueue(clearCache) ==
    IF ~updateChildrenThrottler.activePromise
    THEN /\ updateChildrenThrottler' =
               [updateChildrenThrottler EXCEPT !.activePromise = TRUE,
                                               !.activeCallers = 1]
         /\ treeOperationSequencer' =
               <<TreeOperation("updateChildren", clearCache)>> \o treeOperationSequencer
    ELSE /\ updateChildrenThrottler' =
               [updateChildrenThrottler EXCEPT
                    !.queuedPromiseFactory =
                        IF clearCache THEN "clearCache" ELSE "keepCache",
                    !.queuedCallers = @ + 1]
         /\ UNCHANGED treeOperationSequencer

\* _updateChildren(clearCache): the throttler runs the factory at once when
\* idle, which queues the tree operation; otherwise the factory replaces the
\* one waiting for the follow-up run.
UpdateChildren(clearCache) ==
    IF ~updateChildrenThrottler.activePromise
    THEN /\ updateChildrenThrottler' =
               [updateChildrenThrottler EXCEPT !.activePromise = TRUE,
                                               !.activeCallers = 1]
         /\ treeOperationSequencer' =
               Append(treeOperationSequencer, TreeOperation("updateChildren", clearCache))
    ELSE /\ updateChildrenThrottler' =
               [updateChildrenThrottler EXCEPT
                    !.queuedPromiseFactory =
                        IF clearCache THEN "clearCache" ELSE "keepCache",
                    !.queuedCallers = @ + 1]
         /\ UNCHANGED treeOperationSequencer

\* The throttler promise a caller of _updateChildren gets to await.
UpdateChildrenPromise ==
    IF updateChildrenThrottler.activePromise THEN "queued" ELSE "active"

\* refresh(): await this._updateChildren(true)
RefreshCall ==
    /\ UpdateChildren(TRUE)
    /\ refreshOwed' = TRUE
    /\ UNCHANGED <<repositoryLoadMore, treeLoadMoreSequencer, treeLoadMoreElement,
                   treeChildren>>

\* refresh() called by the view's refresh action.
Refresh ==
    /\ updateChildrenThrottler.queuedCallers < MaxUpdateCallers
    /\ RefreshCall
    /\ ViewModelUntouched

\* _loadMoreCallback(repository): the load-more row of the tree is activated
\* and the task is queued in _treeLoadMoreSequencer.
LoadMoreCallback(r) ==
    /\ treeLoadMoreElement = r
    /\ Len(treeLoadMoreSequencer) < MaxLoadMoreQueued
    /\ treeLoadMoreSequencer' =
          Append(treeLoadMoreSequencer,
                 LoadMoreTask(r, \E j \in DOMAIN treeLoadMoreSequencer :
                                    treeLoadMoreSequencer[j].pc = "awaiting"))
    /\ ViewModelUntouched
    /\ UNCHANGED <<repositoryLoadMore, updateChildrenThrottler, treeOperationSequencer,
                   treeLoadMoreElement, treeChildren, refreshOwed>>

\* The body of a load-more task up to its await, for the task at position
\* i: return if _repositoryLoadMore is set, else set it, mark the entry with
\* setLoadMore(repository, true) and call _updateChildren().
LoadMoreTaskBody(i) ==
    LET t == treeLoadMoreSequencer[i] IN
    IF repositoryLoadMore
    THEN /\ treeLoadMoreSequencer' =
               SubSeq(treeLoadMoreSequencer, 1, i - 1) \o
               SubSeq(treeLoadMoreSequencer, i + 1, Len(treeLoadMoreSequencer))
         /\ ViewModelUntouched
         /\ UNCHANGED <<repositoryLoadMore, updateChildrenThrottler,
                        treeOperationSequencer, treeLoadMoreElement, treeChildren,
                        refreshOwed>>
    ELSE /\ repositoryLoadMore' = TRUE
         /\ SetLoadMore(t.repo, TRUE)
         /\ UpdateChildren(FALSE)
         /\ treeLoadMoreSequencer' =
               [treeLoadMoreSequencer EXCEPT ![i] =
                    [t EXCEPT !.pc = "awaiting", !.wait = UpdateChildrenPromise]]
         /\ UNCHANGED <<treeLoadMoreElement, treeChildren, refreshOwed>>

\* A load-more task started out of turn and past the flag.
LoadMoreTaskRunUnguarded(i) ==
    LET t == treeLoadMoreSequencer[i] IN
    /\ t.pc = "queued"
    /\ SetLoadMore(t.repo, TRUE)
    /\ UpdateChildren(FALSE)
    /\ repositoryLoadMore' = TRUE
    /\ treeLoadMoreSequencer' =
          [treeLoadMoreSequencer EXCEPT ![i] =
               [t EXCEPT !.pc = "awaiting", !.wait = UpdateChildrenPromise]]
    /\ UNCHANGED <<treeLoadMoreElement, treeChildren, refreshOwed>>

\* _treeLoadMoreSequencer runs its next task.
LoadMoreTaskRun(i) ==
    /\ SequencerNext(treeLoadMoreSequencer, i)
    /\ treeLoadMoreSequencer[i].pc = "queued"
    /\ LoadMoreTaskBody(i)

NotAwaitingActive(t) == t.wait # "active"

\* The throttler's active promise settles (ok: it resolved): the load-more
\* tasks awaiting it go on, resetting _repositoryLoadMore unless the await
\* threw; the factory kept for the follow-up, if any, runs at once and queues
\* its tree operation behind rest, and its awaiters now await the active
\* promise.
ThrottlerSettles(ok, rest) ==
    LET remaining == SelectSeq(treeLoadMoreSequencer, NotAwaitingActive)
        promoted == [i \in DOMAIN remaining |->
                        IF remaining[i].wait = "queued"
                        THEN [remaining[i] EXCEPT !.wait = "active"]
                        ELSE remaining[i]]
        factory == updateChildrenThrottler.queuedPromiseFactory
    IN /\ repositoryLoadMore' =
             IF ok /\ Len(remaining) < Len(treeLoadMoreSequencer)
             THEN FALSE ELSE repositoryLoadMore
       /\ IF factory # "none"
          THEN /\ updateChildrenThrottler' =
                     [activePromise |-> TRUE, queuedPromiseFactory |-> "none",
                      activeCallers |-> updateChildrenThrottler.queuedCallers,
                      queuedCallers |-> 0]
               /\ treeOperationSequencer' =
                     Append(rest, TreeOperation("updateChildren", factory = "clearCache"))
               /\ treeLoadMoreSequencer' = promoted
          ELSE /\ updateChildrenThrottler' = ThrottlerIdle
               /\ treeOperationSequencer' = rest
               /\ treeLoadMoreSequencer' = remaining

\* The running tree operation settles: the tree shows the children that
\* getChildren returned (nothing changes when it threw), and the promise of
\* the operation settles.
TreeOperationSettles(children, ok) ==
    LET op == Head(treeOperationSequencer)
        rest == Tail(treeOperationSequencer)
    IN /\ treeLoadMoreElement' =
             IF ok THEN LoadMoreElement(Repository, children) ELSE treeLoadMoreElement
       /\ treeChildren' =
             IF ok
             THEN GetChildren(Repository, HistoryItemViewModels(last'.repo, children))
             ELSE treeChildren
       /\ IF op.kind = "setInput"
          THEN /\ treeOperationSequencer' = rest
               /\ UNCHANGED <<repositoryLoadMore, treeLoadMoreSequencer,
                              updateChildrenThrottler>>
          ELSE ThrottlerSettles(ok, rest)
       /\ UNCHANGED refreshOwed

\* _treeOperationSequencer runs its next task up to the call of the tree:
\* if (clearCache) clearRepositoryState().
TreeOperationStart ==
    /\ SequencerNext(treeOperationSequencer, 1)
    /\ treeOperationSequencer[1].pc = "queued"
    /\ IF treeOperationSequencer[1].clearCache
       THEN ClearRepositoryState /\ refreshOwed' = FALSE
       ELSE ViewModelUntouched /\ UNCHANGED refreshOwed
    /\ treeOperationSequencer' = [treeOperationSequencer EXCEPT ![1].pc = "started"]
    /\ UNCHANGED <<repositoryLoadMore, treeLoadMoreSequencer, updateChildrenThrottler,
                   treeLoadMoreElement, treeChildren>>

\* The tree calls getChildren, and getHistoryItems returns [] at once.
TreeGetChildrenEmpty ==
    /\ treeOperationSequencer # <<>>
    /\ treeOperationSequencer[1].pc = "started"
    /\ GetHistoryItemsEmpty
    /\ TreeOperationSettles(<<>>, TRUE)

\* The tree calls getChildren, and getHistoryItems returns the cached items.
TreeGetChildrenCached ==
    /\ treeOperationSequencer # <<>>
    /\ treeOperationSequencer[1].pc = "started"
    /\ GetHistoryItemsCached
    /\ TreeOperationSettles(state[Repository].items, TRUE)

\* The tree calls getChildren, and getHistoryItems calls the provider.
TreeGetChildrenFetch ==
    /\ treeOperationSequencer # <<>>
    /\ treeOperationSequencer[1].pc = "started"
    /\ GetHistoryItemsFetch
    /\ treeOperationSequencer' = [treeOperationSequencer EXCEPT ![1].pc = "fetching"]
    /\ refreshOwed' = (refreshOwed /\ last'.skip # 0)
    /\ UNCHANGED <<repositoryLoadMore, treeLoadMoreSequencer, updateChildrenThrottler,
                   treeLoadMoreElement, treeChildren>>

\* The provider call of the running tree operation resolves.
TreeProvideResolve(c) ==
    /\ treeOperationSequencer # <<>>
    /\ treeOperationSequencer[1].pc = "fetching"
    /\ ProvideResolve(c)
    /\ TreeOperationSettles(NewState(c, ProvideHistoryItems(c)).items, TRUE)

\* The provider call of the running tree operation resolves with no items.
TreeProvideResolveEmpty(c) ==
    /\ treeOperationSequencer # <<>>
    /\ treeOperationSequencer[1].pc = "fetching"
    /\ ProvideResolveEmpty(c)
    /\ TreeOperationSettles(NewState(c, <<>>).items, TRUE)

\* The provider call of the running tree operation rejects.
TreeProvideReject(c) ==
    /\ treeOperationSequencer # <<>>
    /\ treeOperationSequencer[1].pc = "fetching"
    /\ ProvideReject(c)
    /\ TreeOperationSettles(<<>>, FALSE)

\* The autoruns of renderBody after a change: refresh() when the repository
\* or its history provider changed and there is a repository with a history
\* provider, and when the current history item group changed (another group,
\* another revision) and there is one.
AutorunRefreshes ==
    LET r == Repository' IN
    /\ r # NoRepo
    /\ historyProvider'[r] # NoProvider
    /\ \/ r # Repository
       \/ historyProvider[r] = NoProvider
       \/ /\ historyProvider'[r] # NoGroup
          /\ historyProvider'[r] # historyProvider[r] \/ commits'[r] # commits[r]

\* A change A of what the pane observes, followed by its autoruns.
Autorun(A) ==
    /\ A
    /\ IF AutorunRefreshes THEN RefreshCall ELSE UNCHANGED paneVars

(* ----------------- GitHistoryProvider.provideHistoryItems -------------- *)

\* What the git calls of one provideHistoryItems call do: getCommit answers
\* a commit with parents or the root commit, or fails; getEmptyTree and log
\* succeed or fail.
GitOutcomes ==
    [getCommit : {"parents", "root", "fail"}, getEmptyTree : {"ok", "fail"},
     log : {"ok", "fail"}]

\* A try block around the log call only.
TryBlockLogOnly == {"log"}

\* The git calls made inside the try block of provideHistoryItems.
TryBlock == {"getCommit", "getEmptyTree", "log"}

\* provideHistoryItems(options) of the git provider, whose current group is
\* group: [] without a current group or without historyItemGroupIds; with a
\* limit that is a number (or undefined) only log is called, with a limit
\* { id } getCommit first, and getEmptyTree when that commit has no parent;
\* page is what log answers when it succeeds. A failure inside the try block
\* is logged and [] returned.
GitProvideHistoryItems(group, hasIds, limitKind, page, git) ==
    IF group = NoGroup \/ ~hasIds
    THEN [threw |-> FALSE, failed |-> FALSE, items |-> <<>>]
    ELSE LET failure ==
                 IF limitKind = "id" /\ git.getCommit = "fail" THEN "getCommit"
                 ELSE IF limitKind = "id" /\ git.getCommit = "root"
                         /\ git.getEmptyTree = "fail" THEN "getEmptyTree"
                 ELSE IF git.log = "fail" THEN "log"
                 ELSE "none"
         IN IF failure = "none"
            THEN [threw |-> FALSE, failed |-> FALSE, items |-> page]
            ELSE [threw |-> failure \notin TryBlock, failed |-> TRUE, items |-> <<>>]

\* No provideHistoryItems call made of the provider itself yet.
NoProvided ==
    [pc |-> "idle", group |-> NoGroup, hasIds |-> FALSE, limitKind |-> "number",
     git |-> [getCommit |-> "parents", getEmptyTree |-> "ok", log |-> "ok"],
     failed |-> FALSE, items |-> <<>>]

\* A remote branch, and the undefined one.
RemoteBranches == [remote : {"origin"}, name : {"main", "dev"}]
NoBranch == [remote |-> "", name |-> ""]

\* The local branches HEAD can be on; NoHead is an undefined HEAD.
Branches == {"main", "dev", "feature"}
NoHead == "nohead"

\* HEAD.upstream of a branch: main and dev track the branch of their name on
\* origin, feature tracks nothing.
UpstreamOf(b) ==
    IF b = "feature" THEN NoBranch ELSE [remote |-> "origin", name |-> b]

\* repository.getBranchBase(name): the branch a branch was created from.
BranchBase(b) ==
    IF b = "feature" THEN [remote |-> "origin", name |-> "dev"]
    ELSE [remote |-> "origin", name |-> "main"]

\* `${remote}/${name}`
RemoteRefName(ref) == ref.remote \o "/" \o ref.name

\* An undefined currentHistoryItemGroup.
NoPublished == [name |-> NoGroup, remote |-> NoGroup, base |-> NoGroup]

\* The group of onDidRunGitStatus with a base whenever there is a merge base.
GroupOfHEADAlwaysBase(head, mergeBase) ==
    [name |-> head,
     remote |-> IF UpstreamOf(head) # NoBranch
                THEN RemoteRefName(UpstreamOf(head)) ELSE NoGroup,
     base |-> IF mergeBase # NoBranch THEN RemoteRefName(mergeBase) ELSE NoGroup]

\* The group onDidRunGitStatus builds from repository.HEAD = head and the
\* merge base it awaited: the name of HEAD, the remote from HEAD.upstream,
\* and a base only if the merge base differs from HEAD.upstream in remote or
\* name.
GroupOfHEAD(head, mergeBase) ==
    LET upstream == UpstreamOf(head) IN
    [name |-> head,
     remote |-> IF upstream # NoBranch THEN RemoteRefName(upstream) ELSE NoGroup,
     base |-> IF /\ mergeBase # NoBranch
                 /\ \/ mergeBase.remote # upstream.remote
                    \/ mergeBase.name # upstream.name
              THEN RemoteRefName(mergeBase) ELSE NoGroup]

\* The git provider as constructed, and no code block action run.
ActionsAtStart ==
    /\ provided = NoProvided
    /\ HEAD = NoHead
    /\ statusRuns = <<>>
    /\ publishedGroup = NoPublished
    /\ statusFailed = FALSE
    /\ statusEvents = 0
    /\ effects = {}
    /\ actionsRun = 0

\* git status ran with HEAD now head, and onDidRunGitStatus runs up to its
\* await: with HEAD undefined the group is set to undefined and the run
\* ends, else resolveHEADMergeBase asks for the branch base of HEAD.name.
OnDidRunGitStatus(head) ==
    /\ statusEvents < MaxStatusEvents
    /\ statusEvents' = statusEvents + 1
    /\ HEAD' = head
    /\ IF head = NoHead
       THEN /\ publishedGroup' = NoPublished
            /\ UNCHANGED statusRuns
       ELSE /\ statusRuns' = Append(statusRuns, [branch |-> head])
            /\ UNCHANGED publishedGroup
    /\ UNCHANGED <<statusFailed, provided>>

\* The getBranchBase call of run i resolves and the run goes on, reading
\* this.repository.HEAD again: HEAD.name throws when HEAD is undefined, else
\* the group is built from HEAD as it is now and the merge base awaited.
MergeBaseResolves(i) ==
    LET run == statusRuns[i]
        rest == SubSeq(statusRuns, 1, i - 1) \o SubSeq(statusRuns, i + 1, Len(statusRuns))
    IN /\ statusRuns' = rest
       /\ IF HEAD = NoHead
          THEN /\ statusFailed' = TRUE
               /\ UNCHANGED publishedGroup
          ELSE /\ publishedGroup' = GroupOfHEAD(HEAD, BranchBase(run.branch))
               /\ UNCHANGED statusFailed
       /\ UNCHANGED <<HEAD, statusEvents, provided>>

\* provideHistoryItems called of the git provider with any options, against
\* a log of the two commits of the repository.
ProvideHistoryItemsCall(group, hasIds, limitKind, git) ==
    LET res == GitProvideHistoryItems(group, hasIds, limitKind, Log(2), git) IN
    /\ provided' = [pc |-> IF res.threw THEN "threw" ELSE "returned",
                    group |-> group, hasIds |-> hasIds, limitKind |-> limitKind,
                    git |-> git, failed |-> res.failed, items |-> res.items]

\* The provideHistoryItems call c of the view model settles as the git
\* provider settles it: the view model passes its filter's ids and a number
\* as limit.
GitProvideSettles(c, git) ==
    LET res == GitProvideHistoryItems(CurrentHistoryItemGroup(c.repo), TRUE, "number",
                                      LogWindow(commits[c.repo], c.skip, c.limit), git)
    IN /\ BagIn(c, inflight)
       /\ IF res.threw THEN ProvideReject(c) ELSE ResolveWith(c, res.items)

(* ----------------------- chat code block actions ---------------------- *)

\* context.element: a response, a response whose errorDetails say
\* responseIsFiltered, or a request.
Elements == {"response", "filteredResponse", "request"}

\* No ICodeBlockActionContext: args[0] is none, the editor has no code block.
NoContext == "nocontext"

\* isResponseVM(context.element)
isResponseVM(context) == context \in {"response", "filteredResponse"}

\* isResponseFiltered(context)
isResponseFiltered(context) == isResponseVM(context) /\ context = "filteredResponse"

\* editorService.activeEditorPane and activeTextEditorControl.
ActiveEditors == {"none", "notebook", "notebookReadonly", "notebookCode", "code", "readonly"}

Effect(action, effect, context) == [action |-> action, effect |-> effect, element |-> context]

\* chatService.notifyUserAction, made only for a response.
NotifyUserAction(action, context) ==
    IF isResponseVM(context) THEN {Effect(action, "notify", context)} ELSE {}

\* ChatCodeBlockAction.run: the context is args[0], or the one of the
\* focused or active editor's code block.
ContextOfRun(arg, editorContext) == IF arg # NoContext THEN arg ELSE editorContext

Ran(done) ==
    /\ actionsRun < MaxCodeBlockActions
    /\ actionsRun' = actionsRun + 1
    /\ effects' = effects \cup done

\* CopyCodeBlockAction.run, the toolbar Copy: only args[0] is looked at.
CopyCodeBlockAction(arg) ==
    Ran(IF arg = NoContext \/ isResponseFiltered(arg) THEN {}
        ELSE {Effect("copyCodeBlock", "clipboard", arg)}
                 \cup NotifyUserAction("copyCodeBlock", arg))

\* The 'chat-codeblock' implementation of the editor's CopyAction: the copy
\* is reported, and with an empty selection the whole block is written to
\* the clipboard. isResponseFiltered is not asked.
CopyActionImplementation(editorContext, noSelection) ==
    Ran(IF editorContext = NoContext THEN {}
        ELSE {Effect("copyAction", "notify", editorContext)}
                 \cup IF noSelection
                      THEN {Effect("copyAction", "clipboard", editorContext)} ELSE {})

\* InsertCodeBlockAction.handleTextEditor: the edits are computed, reported
\* and applied; Apply in Editor previews them, opening the editor of the
\* file edited when they are of one file.
HandleTextEditor(action, context, oneFile) ==
    NotifyUserAction(action, context) \cup {Effect(action, "edit", context)}
        \cup IF action = "applyInEditor" /\ oneFile
             THEN {Effect(action, "openEditor", context)} ELSE {}

\* InsertCodeBlockAction.runWithContext and handleNotebookEditor.
InsertCodeBlockEffects(action, context, editor, oneFile) ==
    IF isResponseFiltered(context) THEN {}
    ELSE IF editor = "notebookReadonly" THEN {}
    ELSE IF editor = "notebookCode" THEN HandleTextEditor(action, context, oneFile)
    ELSE IF editor = "notebook"
         THEN {Effect(action, "edit", context)} \cup NotifyUserAction(action, context)
    ELSE IF editor = "code" THEN HandleTextEditor(action, context, oneFile)
    ELSE {}

\* Apply in Editor and Insert At Cursor, run through ChatCodeBlockAction.run.
InsertCodeBlockAction(action, arg, editorContext, editor, oneFile) ==
    LET context == ContextOfRun(arg, editorContext) IN
    Ran(IF context = NoContext THEN {}
        ELSE InsertCodeBlockEffects(action, context, editor, oneFile))

\* InsertIntoNewFileAction
InsertIntoNewFileAction(arg, editorContext) ==
    LET context == ContextOfRun(arg, editorContext) IN
    Ran(IF context = NoContext \/ isResponseFiltered(context) THEN {}
        ELSE {Effect("insertIntoNewFile", "openEditor", context)}
                 \cup NotifyUserAction("insertIntoNewFile", context))

\* RunInTerminalAction
RunInTerminalAction(arg, editorContext) ==
    LET context == ContextOfRun(arg, editorContext) IN
    Ran(IF context = NoContext \/ isResponseFiltered(context) THEN {}
        ELSE {Effect("runInTerminal", "terminal", context)}
                 \cup NotifyUserAction("runInTerminal", context))

(* ------------------------------ reindent ------------------------------ *)

\* The characters of a line: CharCode.Space, CharCode.Tab, any other one.
Chars == {" ", "\t", "x"}

\* The lines of at most MaxLineLen characters.
Lines == UNION {[1..n -> Chars] : n \in 0..MaxLineLen}

\* A code block: its lines and the line break between them. One of two
\* lines at most is enough for a least indented line and another one.
CodeBlocks ==
    {[lines |-> <<l>>, eol |-> "\n"] : l \in Lines}
        \cup {[lines |-> <<l1, l2>>, eol |-> e] : l1 \in Lines, l2 \in Lines, e \in {"\n", "\r\n"}}

\* No code block: reindent was not called.
NoCode == [lines |-> <<>>, eol |-> "none"]

\* model.getFormattingOptions()
FormattingOptions == [tabSize : {2}, insertSpaces : BOOLEAN]

\* model.getLineContent(seletionStartLine): the line the code is inserted at.
SelectionLines == {<<>>, <<"\t">>, <<"\t", "\t">>}

\* strings.splitLines, and newLines.join('\n')
splitLines(code) == code.lines
JoinLines(lines) == [lines |-> lines, eol |-> "\n"]

RECURSIVE ComputeIndentationFrom(_, _, _, _, _, _)
\* The loop of computeIndentation at position i (1-based: length is i, not i + 1).
ComputeIndentationFrom(line, tabSize, i, nSpaces, level, length) ==
    IF i > Len(line) THEN [level |-> level, length |-> length]
    ELSE IF line[i] = " "
         THEN IF nSpaces + 1 = tabSize
              THEN ComputeIndentationFrom(line, tabSize, i + 1, 0, level + 1, i)
              ELSE ComputeIndentationFrom(line, tabSize, i + 1, nSpaces + 1, level, length)
    ELSE IF line[i] = "\t"
         THEN ComputeIndentationFrom(line, tabSize, i + 1, 0, level + 1, i)
    ELSE [level |-> level, length |-> length]

\* computeIndentation(line, tabSize)
computeIndentation(line, tabSize) == ComputeIndentationFrom(line, tabSize, 1, 0, 0, 0)

\* Number.MAX_VALUE: above the level of every line of the model.
NumberMaxValue == MaxLineLen + 2

\* The reduce with no line ignored.
RECURSIVE ReduceMinLevelOfAll(_, _, _, _)
ReduceMinLevelOfAll(newContent, indents, index, min) ==
    IF index > Len(newContent) THEN min
    ELSE ReduceMinLevelOfAll(newContent, indents, index + 1, Min(indents[index].level, min))

\* The smallest indent level with no line ignored.
NewContentIndentLevelOfAll(newContent, indents) ==
    ReduceMinLevelOfAll(newContent, indents, 1, NumberMaxValue)

RECURSIVE ReduceMinLevel(_, _, _, _)
\* indents.reduce((min, indent, index) => ...): lines that are all
\* indentation are ignored.
ReduceMinLevel(newContent, indents, index, min) ==
    IF index > Len(newContent) THEN min
    ELSE ReduceMinLevel(newContent, indents, index + 1,
             IF indents[index].length # Len(newContent[index])
             THEN Min(indents[index].level, min) ELSE min)

\* The smallest indent level in the code block.
NewContentIndentLevel(newContent, indents) ==
    ReduceMinLevel(newContent, indents, 1, NumberMaxValue)

\* ' '.repeat(n), '\t'.repeat(n)
Repeat(ch, n) == [i \in 1..n |-> ch]

\* reindent(codeBlockContent, model, seletionStartLine)
reindent(code, options, line) ==
    LET newContent == splitLines(code)
        tabSize == options.tabSize
        codeIndentLevel == computeIndentation(line, tabSize).level
        indents == [i \in DOMAIN newContent |-> computeIndentation(newContent[i], tabSize)]
        newContentIndentLevel == NewContentIndentLevel(newContent, indents)
        newLine(i) ==
            LET newLevel == Max(0, codeIndentLevel + indents[i].level - newContentIndentLevel)
                newIndentation == IF options.insertSpaces
                                  THEN Repeat(" ", tabSize * newLevel)
                                  ELSE Repeat("\t", newLevel)
            IN newIndentation \o SubSeq(newContent[i], indents[i].length + 1, Len(newContent[i]))
    IN IF Len(newContent) = 0 THEN code
       ELSE IF newContentIndentLevel = NumberMaxValue \/ newContentIndentLevel = codeIndentLevel
            THEN code
       ELSE JoinLines([i \in DOMAIN newContent |-> newLine(i)])

\* reindent is called on the code block for the line of the selection.
Reindent ==
    /\ reindented = NoCode
    /\ reindented' = reindent(codeBlockContent, formattingOptions, selectionLine)
    /\ UNCHANGED <<codeBlockContent, formattingOptions, selectionLine, reindentedAgain>>

\* reindent is called on what it returned, for the same line.
ReindentAgain ==
    /\ reindented # NoCode
    /\ reindentedAgain = NoCode
    /\ reindentedAgain' = reindent(reindented, formattingOptions, selectionLine)
    /\ UNCHANGED <<codeBlockContent, formattingOptions, selectionLine, reindented>>

(* ------------------- Apply in Editor: computeEdits -------------------- *)

\* What provider.provideMappedEdits settles with: a result with edits, a
\* result whose list of edits is empty, nothing (undefined or null), or a
\* rejection.
MappedEditsOutcomes == {"edits", "noEdits", "nothing", "rejects"}

\* provider.displayName of the i-th provider of mappedEditsProvider.ordered.
DisplayName(i) == <<"first", "second", "third", "fourth">>[i]

\* codeEditor.getSelection() null: no line number.
NoSelection == 0

\* The lines of the active model, and codeEditor.getSelection(): the line
\* the selection starts at, or null.
ActiveModelLines == <<<<"\t", "x">>, <<>>>>
Selections == DOMAIN ActiveModelLines \cup {NoSelection}

\* The code blocks applied.
AppliedCodeBlocks ==
    {[lines |-> <<<<"x">>>>, eol |-> "\n"],
     [lines |-> <<<<"\t", "x">>>>, eol |-> "\n"],
     [lines |-> <<<<"x">>, <<"\t", "x">>>>, eol |-> "\r\n"]}

\* The model's formatting options.
ActiveModelOptions == [tabSize |-> 2, insertSpaces |-> FALSE]

\* No IComputeEditsResult.
NoEditsResult == [edits |-> <<>>, codeMapper |-> "none"]

\* A computeEdits call of Apply in Editor: pc is "idle" (none made),
\* "awaiting" (suspended at provideMappedEdits of provider next),
\* "returned" or "threw"; called lists what the providers called settled
\* with, in order; notified counts the error notifications.
NoComputeEdits ==
    [pc |-> "idle", providers |-> 0, selection |-> NoSelection, code |-> NoCode,
     next |-> 0, called |-> <<>>, notified |-> 0, result |-> NoEditsResult]

\* mappedEdits.edits of the result of provider i.
MappedEdits(i, outcome) ==
    IF outcome = "edits" THEN <<[kind |-> "mapped", by |-> DisplayName(i)]>> ELSE <<>>

\* InsertCodeBlockAction.computeEdits: one text edit at the selection, or
\* at the end of the last line with none, of the code block reindented for
\* the line the range starts at.
InsertCodeBlockComputeEdits(selection, code) ==
    LET startLineNumber == IF selection # NoSelection THEN selection ELSE Len(ActiveModelLines)
    IN [edits |-> <<[kind |-> "insert",
                     range |-> IF selection # NoSelection THEN "selection" ELSE "endOfDocument",
                     startLineNumber |-> startLineNumber,
                     text |-> reindent(code, ActiveModelOptions, ActiveModelLines[startLineNumber])]>>,
        codeMapper |-> "undefined"]

ComputeEditsReturned(call, result) == [call EXCEPT !.pc = "returned", !.next = 0, !.result = result]

\* SmartApplyInEditorAction.computeEdits up to its first await: with no
\* provider it falls back at once.
ComputeEdits(providers, selection, code) ==
    LET call == [NoComputeEdits EXCEPT !.providers = providers, !.selection = selection,
                                       !.code = code]
    IN /\ applyInEditor.pc # "awaiting"
       /\ applyInEditor' =
             IF providers > 0
             THEN [call EXCEPT !.pc = "awaiting", !.next = 1]
             ELSE ComputeEditsReturned(call, InsertCodeBlockComputeEdits(selection, code))

\* provideMappedEdits of the provider awaited resolves: a result is
\* returned with the provider's name, after nothing the next provider is
\* called, and after the last one the call falls back.
ProvideMappedEditsResolves(outcome) ==
    LET call == [applyInEditor EXCEPT !.called = Append(@, outcome)] IN
    /\ applyInEditor.pc = "awaiting"
    /\ outcome # "rejects"
    /\ applyInEditor' =
          IF outcome # "nothing"
          THEN ComputeEditsReturned(call, [edits |-> MappedEdits(call.next, outcome),
                                           codeMapper |-> DisplayName(call.next)])
          ELSE IF call.next < call.providers
          THEN [call EXCEPT !.next = @ + 1]
          ELSE ComputeEditsReturned(call, InsertCodeBlockComputeEdits(call.selection, call.code))

\* provideMappedEdits rejects and nothing catches it.
ProvideMappedEditsRejectsUncaught ==
    /\ applyInEditor.pc = "awaiting"
    /\ applyInEditor' = [applyInEditor EXCEPT !.pc = "threw", !.next = 0,
                                              !.called = Append(@, "rejects")]

\* provideMappedEdits rejects: the catch block notifies the error and the
\* call falls back.
ProvideMappedEditsRejects ==
    /\ applyInEditor.pc = "awaiting"
    /\ applyInEditor' =
          ComputeEditsReturned([applyInEditor EXCEPT !.called = Append(@, "rejects"),
                                                    !.notified = @ + 1],
                               InsertCodeBlockComputeEdits(applyInEditor.selection, applyInEditor.code))

(* ------------- the pane's HistoryItemGroup change autorun ------------- *)

\* historyProvider.currentHistoryItemGroup undefined.
NoCurrentGroup == [id |-> "none", revision |-> "none", remoteId |-> "none", remoteRevision |-> "none"]

\* The values of historyProvider.currentHistoryItemGroup: id, revision,
\* remote?.id and remote?.revision; a group with no remote has neither.
CurrentGroups ==
    {[id |-> i, revision |-> r, remoteId |-> "none", remoteRevision |-> "none"] :
        i \in {"main", "dev"}, r \in {"a", "b", "c"}}
    \cup [id : {"main", "dev"}, revision : {"a", "b", "c"},
          remoteId : {"origin/main"}, remoteRevision : {"a", "b", "c"}]
    \cup {NoCurrentGroup}

\* The derived historyItemGroup undefined.
NoDerivedGroup == [id |-> "undefined", revision |-> "undefined", remoteId |-> "undefined"]

\* The derived historyItemGroup: { id, revision, remoteId }, or undefined.
DerivedHistoryItemGroup(g) ==
    IF g = NoCurrentGroup THEN NoDerivedGroup
    ELSE [id |-> g.id, revision |-> g.revision, remoteId |-> g.remoteId]

\* The derived historyItemRemoteRevision: remote?.revision, or undefined.
DerivedHistoryItemRemoteRevision(g) ==
    IF g.remoteRevision = "none" THEN "undefined" ELSE g.remoteRevision

\* The observables the body of the autorun reads, in order, when the
\* provider's group is g: in (!historyItemGroup.read(reader) &&
\* !historyItemRemoteRevision.read(reader)) the second is read only when
\* the first is undefined. They are the autorun's dependencies until it
\* runs again.
ObservablesRead(g) ==
    IF g = NoCurrentGroup
    THEN <<"historyItemGroup", "historyItemRemoteRevision">>
    ELSE <<"historyItemGroup">>

\* d has changed in the change of the provider's group from g to h.
DidChange(d, g, h) ==
    IF d = "historyItemGroup"
    THEN DerivedHistoryItemGroup(g) /= DerivedHistoryItemGroup(h)
    ELSE DerivedHistoryItemRemoteRevision(g) /= DerivedHistoryItemRemoteRevision(h)

\* The change summary the autorun runs with after the change from g to h:
\* handleChange is called for the first of its dependencies that reports a
\* change, and with none the autorun does not run ("false").
ChangeSummaryRefresh(dependencies, g, h) ==
    LET changed == {i \in DOMAIN dependencies : DidChange(dependencies[i], g, h)} IN
    IF changed = {} THEN "false"
    ELSE LET i == CHOOSE i \in changed : \A j \in changed : i <= j
         IN IF dependencies[i] = "historyItemRemoteRevision" THEN "ifScrollTop" ELSE "true"

\* refresh() up to its await of _updateChildren(true).
RefreshCalled ==
    /\ refreshesPending' = refreshesPending + 1
    /\ UNCHANGED <<scrollTop, titleDescription>>

\* historyProvider.currentHistoryItemGroup changes to h and the autorun
\* reacts: it runs if a dependency changed, reads its observables anew, and
\* returns, refreshes, or sets the "OUTDATED" description.
CurrentHistoryItemGroupChange(h) ==
    LET refresh == ChangeSummaryRefresh(autorunDependencies, currentGroup, h) IN
    /\ h # currentGroup
    /\ refreshesPending < MaxRefreshesPending
    /\ currentGroup' = h
    /\ IF refresh = "false"
       THEN UNCHANGED <<autorunDependencies, scrollTop, titleDescription, refreshesPending>>
       ELSE /\ autorunDependencies' = ObservablesRead(h)
            /\ IF /\ DerivedHistoryItemGroup(h) = NoDerivedGroup
                  /\ DerivedHistoryItemRemoteRevision(h) = "undefined"
               THEN UNCHANGED <<scrollTop, titleDescription, refreshesPending>>
               ELSE IF refresh = "true" THEN RefreshCalled
               ELSE IF scrollTop = 0 THEN RefreshCalled
               ELSE /\ titleDescription' = "OUTDATED"
                    /\ UNCHANGED <<scrollTop, refreshesPending>>

\* The user scrolls the tree, away from the top or back to it.
TreeScroll(top) ==
    /\ scrollTop # top
    /\ scrollTop' = top
    /\ UNCHANGED <<currentGroup, autorunDependencies, titleDescription, refreshesPending>>

\* The _updateChildren(true) a refresh() awaits resolves: the description
\* is cleared and the tree scrolled to the top.
RefreshCompletes ==
    /\ refreshesPending > 0
    /\ refreshesPending' = refreshesPending - 1
    /\ titleDescription' = "undefined"
    /\ scrollTop' = 0
    /\ UNCHANGED <<currentGroup, autorunDependencies>>

\* The _updateChildren(true) a refresh() awaits rejects, and refresh() with it.
RefreshRejects ==
    /\ refreshesPending > 0
    /\ refreshesPending' = refreshesPending - 1
    /\ UNCHANGED <<currentGroup, autorunDependencies, titleDescription, scrollTop>>

\* The pane as its autorun first ran with the group "main" of the provider.
AutorunAtStart ==
    /\ currentGroup = [id |-> "main", revision |-> "a", remoteId |-> "none", remoteRevision |-> "none"]
    /\ autorunDependencies = <<"historyItemGroup">>
    /\ scrollTop = 0
    /\ titleDescription = "undefined"
    /\ refreshesPending = 0

\* No reindent call made: an empty line to insert at an empty line.
ReindentAtStart ==
    /\ codeBlockContent = [lines |-> <<<<>>>>, eol |-> "\n"]
    /\ formattingOptions = [tabSize |-> 2, insertSpaces |-> TRUE]
    /\ selectionLine = <<>>
    /\ reindented = NoCode
    /\ reindentedAgain = NoCode

\* The variables of the git provider and of the code block actions, as
\* constructed.
RestAtStart ==
    /\ ActionsAtStart
    /\ ReindentAtStart
    /\ AutorunAtStart
    /\ applyInEditor = NoComputeEdits

(* ---------------- graph colours and common ancestor ------------------ *)

\* ColorIdentifier values of the graph.
historyItemGroupLocal == "scmGraph.historyItemGroupLocal"
historyItemGroupRemote == "scmGraph.historyItemGroupRemote"
historyItemGroupBase == "scmGraph.historyItemGroupBase"

\* The ISCMHistoryItemGroup values: the name of the group and the names of
\* its remote and its base, NoGroup for one that is undefined.
HistoryItemGroups ==
    [name : GroupNames, remote : GroupNames \cup {NoGroup}, base : GroupNames \cup {NoGroup}]

\* A Map<string, ColorIdentifier> is a function from its keys; the empty map.
NoColorMap == [k \in {} |-> ""]

\* Map.set(k, v): the entry of k is added, or replaced when there is one.
MapSet(m, k, v) == [x \in DOMAIN m \cup {k} |-> IF x = k THEN v ELSE m[x]]

\* _getGraphColorMap that sets the remote's entry after the base's.
GetGraphColorMapRemoteLast(group, filter) ==
    LET local == MapSet(NoColorMap, group.name, historyItemGroupLocal)
        base == IF group.base # NoGroup
                THEN MapSet(local, group.base, historyItemGroupBase) ELSE local
        remote == IF group.remote # NoGroup
                  THEN MapSet(base, group.remote, historyItemGroupRemote) ELSE base
    IN IF filter = "all" THEN MapSet(remote, "*", "") ELSE remote

\* _getGraphColorMap that sets the "*" entry unless the filter is 'auto'.
GetGraphColorMapWildcardForIds(group, filter) ==
    LET local == MapSet(NoColorMap, group.name, historyItemGroupLocal)
        remote == IF group.remote # NoGroup
                  THEN MapSet(local, group.remote, historyItemGroupRemote) ELSE local
        base == IF group.base # NoGroup
                THEN MapSet(remote, group.base, historyItemGroupBase) ELSE remote
    IN IF filter # "auto" THEN MapSet(base, "*", "") ELSE base

\* _getGraphColorMap(currentHistoryItemGroup), reading _historyItemGroupFilter:
\* the map starts with the group's name, then the remote's name is set if
\* there is a remote, then the base's name if there is a base, then "*" if
\* the filter is 'all'.
GetGraphColorMap(group, filter) ==
    LET local == MapSet(NoColorMap, group.name, historyItemGroupLocal)
        remote == IF group.remote # NoGroup
                  THEN MapSet(local, group.remote, historyItemGroupRemote) ELSE local
        base == IF group.base # NoGroup
                THEN MapSet(remote, group.base, historyItemGroupBase) ELSE remote
    IN IF filter = "all" THEN MapSet(base, "*", "") ELSE base

\* getHistoryItems: "Create the color map" for the current group.
CreateColorMap ==
    /\ colorMap' = GetGraphColorMap(historyItemGroup, historyItemGroupFilter)
    /\ UNCHANGED <<historyItemGroup, historyItemGroupFilter, commonAncestor, restVars>>

\* The id lists given to resolveHistoryItemGroupCommonAncestor; a group is
\* identified here by its name (its id is the ref of that name).
HistoryItemGroupIds == UNION {[1..n -> GroupNames] : n \in 0..MaxGroupIds}

\* A resolveHistoryItemGroupCommonAncestor call: pc is "idle" (none made),
\* "awaiting" (suspended at the git call named by git), "returned" or
\* "threw"; failed says that the git call rejected; result is the value
\* returned; made lists the repository calls made, each with its
\* arguments, and answer is what the repository answered.
NoCall ==
    [pc |-> "idle", historyItemGroupIds |-> <<>>, git |-> "none",
     failed |-> FALSE, result |-> NoAncestor, made |-> <<>>, answer |-> NoAncestor]

\* No repository call.
NoGitCall == [git |-> "none", args |-> <<>>]

\* The repository call made for the current group alone, were the base
\* looked at before the remote.
GitCallOfBaseFirst(ids, group) ==
    IF Len(ids) = 1 /\ ids[1] = group.name
    THEN IF group.base # NoGroup
         THEN [git |-> "getMergeBase", args |-> <<ids[1], group.base>>]
         ELSE IF group.remote # NoGroup
         THEN [git |-> "getMergeBase", args |-> <<ids[1], group.remote>>]
         ELSE [git |-> "log", args |-> <<"HEAD">>]
    ELSE IF Len(ids) > 1
    THEN [git |-> "getMergeBase", args |-> ids]
    ELSE NoGitCall

\* The repository call resolveHistoryItemGroupCommonAncestor awaits, with
\* its arguments: for the current group alone getMergeBase with the remote,
\* else getMergeBase with the base, else log({ maxParents: 0, refNames:
\* ['HEAD'] }); for two ids or more getMergeBase of them all; else none.
GitCallOf(ids, group) ==
    IF Len(ids) = 0
    THEN NoGitCall
    ELSE IF Len(ids) = 1 /\ ids[1] = group.name
    THEN IF group.remote # NoGroup
         THEN [git |-> "getMergeBase", args |-> <<ids[1], group.remote>>]
         ELSE IF group.base # NoGroup
         THEN [git |-> "getMergeBase", args |-> <<ids[1], group.base>>]
         ELSE [git |-> "log", args |-> <<"HEAD">>]
    ELSE IF Len(ids) > 1
    THEN [git |-> "getMergeBase", args |-> ids]
    ELSE NoGitCall

\* The call has returned value.
Returned(call, value) == [call EXCEPT !.pc = "returned", !.git = "none", !.result = value]

\* resolveHistoryItemGroupCommonAncestor(historyItemGroupIds) up to its
\* await: an empty list returns undefined; the current group alone awaits
\* getMergeBase with its remote, else with its base, else log for the first
\* commit; two ids or more await getMergeBase; any other single id falls
\* through to return undefined.
ResolveHistoryItemGroupCommonAncestor(ids) ==
    LET call == [NoCall EXCEPT !.historyItemGroupIds = ids] IN
    /\ commonAncestor.pc # "awaiting"
    /\ commonAncestor' =
          LET gitCall == GitCallOf(ids, historyItemGroup) IN
          IF gitCall = NoGitCall
          THEN Returned(call, NoAncestor)
          ELSE [call EXCEPT !.pc = "awaiting", !.git = gitCall.git, !.made = <<gitCall>>]
    /\ UNCHANGED <<historyItemGroup, historyItemGroupFilter, colorMap, restVars>>

\* repository.getMergeBase resolves with ancestor, a hash or undefined,
\* which is returned.
GetMergeBaseResolves(ancestor) ==
    /\ commonAncestor.pc = "awaiting"
    /\ commonAncestor.git = "getMergeBase"
    /\ commonAncestor' = Returned([commonAncestor EXCEPT !.answer = ancestor], ancestor)
    /\ UNCHANGED <<historyItemGroup, historyItemGroupFilter, colorMap, restVars>>

\* repository.log resolves: the hash of the first commit is returned if
\* there is one, else the call falls through to return undefined.
LogResolves(hashes) ==
    /\ commonAncestor.pc = "awaiting"
    /\ commonAncestor.git = "log"
    /\ commonAncestor' =
          Returned([commonAncestor EXCEPT !.answer = IF Len(hashes) > 0 THEN hashes[1] ELSE NoAncestor],
                   IF Len(hashes) > 0 THEN hashes[1] ELSE NoAncestor)
    /\ UNCHANGED <<historyItemGroup, historyItemGroupFilter, colorMap, restVars>>

\* The awaited git call rejects and nothing catches it.
GitRejectsUncaught ==
    /\ commonAncestor.pc = "awaiting"
    /\ commonAncestor' = [commonAncestor EXCEPT !.pc = "threw", !.git = "none",
                                                !.failed = TRUE]
    /\ UNCHANGED <<historyItemGroup, historyItemGroupFilter, colorMap, restVars>>

\* The awaited git call rejects: the catch block logs the error and the
\* call returns undefined.
GitRejects ==
    /\ commonAncestor.pc = "awaiting"
    /\ commonAncestor' = [Returned(commonAncestor, NoAncestor) EXCEPT !.failed = TRUE]
    /\ UNCHANGED <<historyItemGroup, historyItemGroupFilter, colorMap, restVars>>

(* --------------------------- specification ---------------------------- *)

Init ==
    /\ repositories = Repos
    /\ selectedRepository = "auto"
    /\ activeRepository = "r1"
    /\ historyProvider = [r \in Repos |-> IF r = "r1" THEN "main" ELSE NoGroup]
    /\ commits = [r \in Repos |-> 2]
    /\ pageSize = 2
    /\ state = [r \in Repos |-> NoState]
    /\ inflight = EmptyBag
    /\ envSteps = 0
    /\ last = NoEvent
    /\ first = [r \in Repos |-> NoFirst]
    /\ cleared = [r \in Repos |-> FALSE]
    /\ overlap = [r \in Repos |-> FALSE]
    /\ repositoryLoadMore = FALSE
    /\ treeLoadMoreSequencer = <<>>
    /\ updateChildrenThrottler = ThrottlerIdle
    /\ treeOperationSequencer = <<TreeOperation("setInput", FALSE)>>
    /\ treeLoadMoreElement = NoRepo
    /\ treeChildren = <<>>
    /\ refreshOwed = FALSE
    /\ historyItemGroup = [name |-> "main", remote |-> NoGroup, base |-> NoGroup]
    /\ historyItemGroupFilter = "auto"
    /\ colorMap = NoColorMap
    /\ commonAncestor = NoCall
    /\ RestAtStart

\* The public operations of the view model, called in any order.
Next ==
    \/ GetHistoryItemsEmpty /\ UNCHANGED <<paneVars, graphVars>>
    \/ GetHistoryItemsCached /\ UNCHANGED <<paneVars, graphVars>>
    \/ GetHistoryItemsFetch /\ UNCHANGED <<paneVars, graphVars>>
    \/ \E c \in BagToSet(inflight) : ProvideResolve(c) /\ UNCHANGED <<paneVars, graphVars>>
    \/ \E c \in BagToSet(inflight) : ProvideResolveEmpty(c) /\ UNCHANGED <<paneVars, graphVars>>
    \/ \E c \in BagToSet(inflight) : ProvideReject(c) /\ UNCHANGED <<paneVars, graphVars>>
    \/ \E r \in Repos, f \in BOOLEAN : SetLoadMore(r, f) /\ UNCHANGED <<paneVars, graphVars>>
    \/ ClearRepositoryState /\ UNCHANGED <<paneVars, graphVars>>
    \/ \E sel \in repositories \cup {"auto"} : SetRepository(sel) /\ UNCHANGED <<paneVars, graphVars>>
    \/ \E r \in Repos : CloseRepository(r) /\ UNCHANGED <<paneVars, graphVars>>
    \/ \E r \in repositories \cup {NoRepo} : ActiveRepositoryChange(r) /\ UNCHANGED <<paneVars, graphVars>>
    \/ \E r \in Repos, v \in Groups \cup {NoGroup, NoProvider} : HistoryProviderChange(r, v) /\ UNCHANGED <<paneVars, graphVars>>
    \/ \E r \in Repos : Commit(r) /\ UNCHANGED <<paneVars, graphVars>>
    \/ \E v \in PageSizes : ConfigurationChange(v) /\ UNCHANGED <<paneVars, graphVars>>

\* The view pane driving the view model.
NextPane ==
    \/ Refresh /\ UNCHANGED graphVars
    \/ \E r \in Repos : LoadMoreCallback(r) /\ UNCHANGED graphVars
    \/ \E i \in DOMAIN treeLoadMoreSequencer : LoadMoreTaskRun(i) /\ UNCHANGED graphVars
    \/ TreeOperationStart /\ UNCHANGED graphVars
    \/ TreeGetChildrenEmpty /\ UNCHANGED graphVars
    \/ TreeGetChildrenCached /\ UNCHANGED graphVars
    \/ TreeGetChildrenFetch /\ UNCHANGED graphVars
    \/ \E c \in BagToSet(inflight) : TreeProvideResolve(c) /\ UNCHANGED graphVars
    \/ \E c \in BagToSet(inflight) : TreeProvideResolveEmpty(c) /\ UNCHANGED graphVars
    \/ \E c \in BagToSet(inflight) : TreeProvideReject(c) /\ UNCHANGED graphVars
    \/ \E sel \in repositories \cup {"auto"} : Autorun(SetRepository(sel)) /\ UNCHANGED graphVars
    \/ \E r \in Repos : Autorun(CloseRepository(r)) /\ UNCHANGED graphVars
    \/ \E r \in repositories \cup {NoRepo} : Autorun(ActiveRepositoryChange(r)) /\ UNCHANGED graphVars
    \/ \E r \in Repos, v \in Groups \cup {NoGroup, NoProvider} : Autorun(HistoryProviderChange(r, v)) /\ UNCHANGED graphVars
    \/ \E r \in Repos : Autorun(Commit(r)) /\ UNCHANGED graphVars
    \/ \E v \in PageSizes : Autorun(ConfigurationChange(v)) /\ UNCHANGED graphVars

vars == <<vmVars, paneVars, graphVars>>

Spec == Init /\ [][Next]_vars

SpecPane == Init /\ [][NextPane]_vars

\* The history view opened on a workspace whose first repository has one to
\* three commits, with a page size of one or two.
InitChildren ==
    /\ repositories = Repos
    /\ selectedRepository = "auto"
    /\ activeRepository \in Repos
    /\ historyProvider = [r \in Repos |-> IF r = "r1" THEN "main" ELSE NoGroup]
    /\ commits \in {[r \in Repos |-> IF r = "r1" THEN n ELSE 2] : n \in 1..3}
    /\ pageSize \in {1, 2}
    /\ state = [r \in Repos |-> NoState]
    /\ inflight = EmptyBag
    /\ envSteps = 0
    /\ last = NoEvent
    /\ first = [r \in Repos |-> NoFirst]
    /\ cleared = [r \in Repos |-> FALSE]
    /\ overlap = [r \in Repos |-> FALSE]
    /\ repositoryLoadMore = FALSE
    /\ treeLoadMoreSequencer = <<>>
    /\ updateChildrenThrottler = ThrottlerIdle
    /\ treeOperationSequencer = <<TreeOperation("setInput", FALSE)>>
    /\ treeLoadMoreElement = NoRepo
    /\ treeChildren = <<>>
    /\ refreshOwed = FALSE
    /\ historyItemGroup = [name |-> "main", remote |-> NoGroup, base |-> NoGroup]
    /\ historyItemGroupFilter = "auto"
    /\ colorMap = NoColorMap
    /\ commonAncestor = NoCall
    /\ RestAtStart

\* The tree reading its children and its load-more row being activated,
\* while the active repository changes.
NextChildren ==
    \/ \E r \in Repos : LoadMoreCallback(r) /\ UNCHANGED graphVars
    \/ \E i \in DOMAIN treeLoadMoreSequencer : LoadMoreTaskRun(i) /\ UNCHANGED graphVars
    \/ TreeOperationStart /\ UNCHANGED graphVars
    \/ TreeGetChildrenEmpty /\ UNCHANGED graphVars
    \/ TreeGetChildrenCached /\ UNCHANGED graphVars
    \/ TreeGetChildrenFetch /\ UNCHANGED graphVars
    \/ \E c \in BagToSet(inflight) : TreeProvideResolve(c) /\ UNCHANGED graphVars
    \/ \E c \in BagToSet(inflight) : TreeProvideResolveEmpty(c) /\ UNCHANGED graphVars
    \/ \E c \in BagToSet(inflight) : TreeProvideReject(c) /\ UNCHANGED graphVars
    \/ \E r \in repositories \cup {NoRepo} : Autorun(ActiveRepositoryChange(r)) /\ UNCHANGED graphVars

SpecChildren == InitChildren /\ [][NextChildren]_vars

\* A view model over any history item group and any filter value, nothing
\* fetched yet and no common ancestor asked for.
InitGraph ==
    /\ repositories = Repos
    /\ selectedRepository = "auto"
    /\ activeRepository = "r1"
    /\ historyProvider = [r \in Repos |-> IF r = "r1" THEN "main" ELSE NoGroup]
    /\ commits = [r \in Repos |-> 2]
    /\ pageSize = 2
    /\ state = [r \in Repos |-> NoState]
    /\ inflight = EmptyBag
    /\ envSteps = 0
    /\ last = NoEvent
    /\ first = [r \in Repos |-> NoFirst]
    /\ cleared = [r \in Repos |-> FALSE]
    /\ overlap = [r \in Repos |-> FALSE]
    /\ repositoryLoadMore = FALSE
    /\ treeLoadMoreSequencer = <<>>
    /\ updateChildrenThrottler = ThrottlerIdle
    /\ treeOperationSequencer = <<TreeOperation("setInput", FALSE)>>
    /\ treeLoadMoreElement = NoRepo
    /\ treeChildren = <<>>
    /\ refreshOwed = FALSE
    /\ historyItemGroup \in HistoryItemGroups
    /\ historyItemGroupFilter \in Filters
    /\ colorMap = NoColorMap
    /\ commonAncestor = NoCall
    /\ RestAtStart

\* The colour map is created, and the common ancestor of a list of groups
\* is asked of the git history provider.
NextGraph ==
    \/ CreateColorMap /\ UNCHANGED <<vmVars, paneVars, restVars>>
    \/ \E ids \in HistoryItemGroupIds :
          ResolveHistoryItemGroupCommonAncestor(ids) /\ UNCHANGED <<vmVars, paneVars, restVars>>
    \/ \E ancestor \in Hashes \cup {NoAncestor} :
          GetMergeBaseResolves(ancestor) /\ UNCHANGED <<vmVars, paneVars, restVars>>
    \/ \E hashes \in {<<>>} \cup {<<h>> : h \in Hashes} :
          LogResolves(hashes) /\ UNCHANGED <<vmVars, paneVars, restVars>>
    \/ GitRejects /\ UNCHANGED <<vmVars, paneVars, restVars>>

SpecGraph == InitGraph /\ [][NextGraph]_vars

\* The view model and the pane as constructed, but for the selected and the
\* active repository.
OthersAtStart ==
    /\ repositories = Repos
    /\ historyProvider = [r \in Repos |-> IF r = "r1" THEN "main" ELSE NoGroup]
    /\ commits = [r \in Repos |-> 2]
    /\ pageSize = 2
    /\ state = [r \in Repos |-> NoState]
    /\ inflight = EmptyBag
    /\ envSteps = 0
    /\ last = NoEvent
    /\ first = [r \in Repos |-> NoFirst]
    /\ cleared = [r \in Repos |-> FALSE]
    /\ overlap = [r \in Repos |-> FALSE]
    /\ repositoryLoadMore = FALSE
    /\ treeLoadMoreSequencer = <<>>
    /\ updateChildrenThrottler = ThrottlerIdle
    /\ treeOperationSequencer = <<TreeOperation("setInput", FALSE)>>
    /\ treeLoadMoreElement = NoRepo
    /\ treeChildren = <<>>
    /\ refreshOwed = FALSE
    /\ historyItemGroup = [name |-> "main", remote |-> NoGroup, base |-> NoGroup]
    /\ historyItemGroupFilter = "auto"
    /\ colorMap = NoColorMap
    /\ commonAncestor = NoCall
    /\ RestAtStart

\* A view model whose repository picker is on 'auto' or on a repository.
InitRepository ==
    /\ selectedRepository \in Repos \cup {"auto"}
    /\ activeRepository = "r1"
    /\ OthersAtStart

\* The repository picker, the active repository and the tracked
\* repositories changing between the reads of the view model.
NextRepository ==
    \/ \E sel \in repositories \cup {"auto"} : SetRepository(sel) /\ UNCHANGED <<paneVars, graphVars>>
    \/ \E r \in repositories \cup {NoRepo} : ActiveRepositoryChange(r) /\ UNCHANGED <<paneVars, graphVars>>
    \/ \E r \in Repos : CloseRepository(r) /\ UNCHANGED <<paneVars, graphVars>>
    \/ GetHistoryItemsEmpty /\ UNCHANGED <<paneVars, graphVars>>
    \/ GetHistoryItemsCached /\ UNCHANGED <<paneVars, graphVars>>
    \/ GetHistoryItemsFetch /\ UNCHANGED <<paneVars, graphVars>>
    \/ \E c \in BagToSet(inflight) : ProvideResolve(c) /\ UNCHANGED <<paneVars, graphVars>>

SpecRepository == InitRepository /\ [][NextRepository]_vars

\* The view model reading pages from the git provider, whose git calls may
\* fail, and the provider called with any options.
NextProvider ==
    \/ GetHistoryItemsCached /\ UNCHANGED <<paneVars, graphVars>>
    \/ GetHistoryItemsFetch /\ UNCHANGED <<paneVars, graphVars>>
    \/ \E r \in Repos : SetLoadMore(r, TRUE) /\ UNCHANGED <<paneVars, graphVars>>
    \/ \E c \in BagToSet(inflight), git \in GitOutcomes :
          GitProvideSettles(c, git) /\ UNCHANGED <<paneVars, graphVars>>
    \/ \E group \in {"main", NoGroup}, hasIds \in BOOLEAN,
          limitKind \in {"number", "id"}, git \in GitOutcomes :
          /\ ProvideHistoryItemsCall(group, hasIds, limitKind, git)
          /\ UNCHANGED <<vmVars, paneVars, historyItemGroup, historyItemGroupFilter,
                         colorMap, commonAncestor, gitStatusVars, chatVars, autorunVars>>

SpecProvider == Init /\ [][NextProvider]_vars

\* git status runs, each with the HEAD it found, and the merge base calls of
\* the runs of onDidRunGitStatus resolve in any order.
NextGitStatus ==
    \/ \E head \in Branches \cup {NoHead} :
          /\ OnDidRunGitStatus(head)
          /\ UNCHANGED <<vmVars, paneVars, historyItemGroup, historyItemGroupFilter,
                         colorMap, commonAncestor, chatVars, autorunVars>>
    \/ \E i \in DOMAIN statusRuns :
          /\ MergeBaseResolves(i)
          /\ UNCHANGED <<vmVars, paneVars, historyItemGroup, historyItemGroupFilter,
                         colorMap, commonAncestor, chatVars, autorunVars>>

SpecGitStatus == Init /\ [][NextGitStatus]_vars

\* The code block actions run, each from the toolbar of a code block or on
\* the code block of the editor in focus.
NextCodeBlock ==
    \/ \E arg \in Elements \cup {NoContext} :
          CopyCodeBlockAction(arg)
    \/ \E editorContext \in Elements \cup {NoContext}, noSelection \in BOOLEAN :
          CopyActionImplementation(editorContext, noSelection)
    \/ \E action \in {"applyInEditor", "insertCodeBlock"},
          arg \in Elements \cup {NoContext}, editorContext \in Elements \cup {NoContext},
          editor \in ActiveEditors, oneFile \in BOOLEAN :
          InsertCodeBlockAction(action, arg, editorContext, editor, oneFile)
    \/ \E arg \in Elements \cup {NoContext}, editorContext \in Elements \cup {NoContext} :
          InsertIntoNewFileAction(arg, editorContext)
    \/ \E arg \in Elements \cup {NoContext}, editorContext \in Elements \cup {NoContext} :
          RunInTerminalAction(arg, editorContext)

SpecCodeBlock ==
    Init /\ [][NextCodeBlock /\ UNCHANGED <<vmVars, paneVars, historyItemGroup,
                   historyItemGroupFilter, colorMap, commonAncestor,
                   providerVars, gitStatusVars, reindentVars, applyVars, autorunVars>>]_vars

\* The view model, the pane and the graph as constructed.
ViewAtStart ==
    /\ selectedRepository = "auto"
    /\ activeRepository = "r1"
    /\ repositories = Repos
    /\ historyProvider = [r \in Repos |-> IF r = "r1" THEN "main" ELSE NoGroup]
    /\ commits = [r \in Repos |-> 2]
    /\ pageSize = 2
    /\ state = [r \in Repos |-> NoState]
    /\ inflight = EmptyBag
    /\ envSteps = 0
    /\ last = NoEvent
    /\ first = [r \in Repos |-> NoFirst]
    /\ cleared = [r \in Repos |-> FALSE]
    /\ overlap = [r \in Repos |-> FALSE]
    /\ repositoryLoadMore = FALSE
    /\ treeLoadMoreSequencer = <<>>
    /\ updateChildrenThrottler = ThrottlerIdle
    /\ treeOperationSequencer = <<TreeOperation("setInput", FALSE)>>
    /\ treeLoadMoreElement = NoRepo
    /\ treeChildren = <<>>
    /\ refreshOwed = FALSE
    /\ historyItemGroup = [name |-> "main", remote |-> NoGroup, base |-> NoGroup]
    /\ historyItemGroupFilter = "auto"
    /\ colorMap = NoColorMap
    /\ commonAncestor = NoCall

\* reindent given any code block, formatting options and line.
InitReindent ==
    /\ ViewAtStart
    /\ ActionsAtStart
    /\ codeBlockContent \in CodeBlocks
    /\ formattingOptions \in FormattingOptions
    /\ selectionLine \in SelectionLines
    /\ reindented = NoCode
    /\ reindentedAgain = NoCode
    /\ AutorunAtStart
    /\ applyInEditor = NoComputeEdits

NextReindent ==
    \/ Reindent
    \/ ReindentAgain

SpecReindent ==
    InitReindent /\ [][NextReindent /\ UNCHANGED <<vmVars, paneVars, historyItemGroup,
                          historyItemGroupFilter, colorMap, commonAncestor,
                          providerVars, gitStatusVars, codeBlockVars, applyVars, autorunVars>>]_vars

\* The provider's current group changes, the user scrolls the tree, and
\* the refreshes called settle.
NextAutorun ==
    \/ \E h \in CurrentGroups : CurrentHistoryItemGroupChange(h)
    \/ \E top \in {0, 1} : TreeScroll(top)
    \/ RefreshCompletes
    \/ RefreshRejects

SpecAutorun ==
    Init /\ [][NextAutorun /\ UNCHANGED <<vmVars, paneVars, historyItemGroup,
                    historyItemGroupFilter, colorMap, commonAncestor,
                    providerVars, gitStatusVars, chatVars>>]_vars

\* Apply in Editor computes its edits with any number of providers, each
\* settling in any way.
NextApply ==
    \/ \E providers \in 0..MaxProviders, selection \in Selections, code \in AppliedCodeBlocks :
          ComputeEdits(providers, selection, code)
    \/ \E outcome \in MappedEditsOutcomes : ProvideMappedEditsResolves(outcome)
    \/ ProvideMappedEditsRejects

SpecApply ==
    Init /\ [][NextApply /\ UNCHANGED <<vmVars, paneVars, historyItemGroup,
                  historyItemGroupFilter, colorMap, commonAncestor,
                  providerVars, gitStatusVars, codeBlockVars, reindentVars,
                  autorunVars>>]_vars

\* What the pane does on its own once it is due: a queued load-more task or
\* tree operation runs, the tree calls getChildren, a provider call settles.
PaneProgress ==
    \/ \E i \in DOMAIN treeLoadMoreSequencer : LoadMoreTaskRun(i) /\ UNCHANGED graphVars
    \/ TreeOperationStart /\ UNCHANGED graphVars
    \/ TreeGetChildrenEmpty /\ UNCHANGED graphVars
    \/ TreeGetChildrenCached /\ UNCHANGED graphVars
    \/ TreeGetChildrenFetch /\ UNCHANGED graphVars
    \/ \E c \in BagToSet(inflight) : TreeProvideResolve(c) /\ UNCHANGED graphVars
    \/ \E c \in BagToSet(inflight) : TreeProvideResolveEmpty(c) /\ UNCHANGED graphVars
    \/ \E c \in BagToSet(inflight) : TreeProvideReject(c) /\ UNCHANGED graphVars

\* The pane with its queued work always carried out in the end: the event
\* loop runs every task that is due and every provider call settles.
SpecPaneLive == Init /\ [][NextPane]_vars /\ WF_vars(PaneProgress)

(* ------------------------------ claims -------------------------------- *)

C2_LoadMoreAppendsPage ==
    last.op = "resolve" /\ last.hadEntry =>
        /\ Len(last.items) = Len(last.before) + Len(last.page)
        /\ SubSeq(last.items, 1, Len(last.before)) = last.before

\* A load-more call returned a non-empty page behind a non-empty cache.
C2_Witness ==
    /\ last.op = "resolve" /\ last.hadEntry
    /\ last.before # <<>> /\ last.page # <<>>

C6_SkipIsCacheLengthLimitIsClamped ==
    last.op = "provide" =>
        /\ last.skip = IF state[last.repo].present THEN Len(state[last.repo].items) ELSE 0
        /\ last.limit >= MinPageSize /\ last.limit <= MaxPageSize
        /\ pageSize >= MinPageSize /\ pageSize <= MaxPageSize => last.limit = pageSize
        /\ pageSize < MinPageSize => last.limit = MinPageSize
        /\ pageSize > MaxPageSize => last.limit = MaxPageSize

\* With page size 2 and two items cached, the call is (skip = 2, limit = 2).
C6_Witness ==
    last.op = "provide" /\ pageSize = 2 /\ last.skip = 2 /\ last.limit = 2

\* C7 (as stated): while a repository's cache entry exists, its item list
\* only grows at its end, whatever the interleaving, overlapping
\* getHistoryItems calls included.
C7_ItemsOnlyGrowAtEnd ==
    [][\A r \in Repos :
          state[r].present /\ state'[r].present =>
              IsPrefix(state[r].items, state'[r].items)]_vars

\* C7 (amended): the same, for the steps of getHistoryItems calls that did not
\* overlap another call of the repository.
C7_ItemsOnlyGrowAtEndUnlessOverlapped ==
    [][\A r \in Repos :
          state[r].present /\ state'[r].present /\ ~overlap[r] =>
              IsPrefix(state[r].items, state'[r].items)]_vars

\* A call that overlapped no other one appended a page to a non-empty list.
C7_Witness ==
    /\ last.op = "resolve" /\ ~last.overlapped /\ last.hadEntry
    /\ Len(last.before) > 0 /\ Len(state[last.repo].items) > Len(last.before)

\* C8: the step in which provideHistoryItems rejects fails the call, leaves
\* every cache entry as it is and starts no other provider call.
C8_RejectLeavesCacheAlone ==
    [][last'.op = "reject" /\ last' # last =>
          /\ state' = state
          /\ BagCardinality(inflight') = BagCardinality(inflight) - 1
          /\ \A c \in BagToSet(inflight') : CopiesIn(c, inflight') <= CopiesIn(c, inflight)]_vars

\* A load-more call failed and the entry, still marked, keeps its items.
C8_Witness ==
    /\ last.op = "reject" /\ last.hadEntry
    /\ state[last.repo].present /\ state[last.repo].loadMore
    /\ state[last.repo].items = last.before /\ last.before # <<>>

\* C9: a repository that has been closed has no cache entry.
C9_ClosedRepositoryHasNoEntry ==
    \A r \in Repos \ repositories : ~state[r].present

\* C4: a load-more triggered while an earlier one still awaits its tree
\* update is a no-op: no provideHistoryItems call is ever made for a tree
\* update that such a late trigger asked for.
C4_LateLoadMoreFetchesNothing ==
    \A i \in DOMAIN treeLoadMoreSequencer :
        treeLoadMoreSequencer[i].late =>
            ~ /\ treeLoadMoreSequencer[i].pc = "awaiting"
              /\ treeLoadMoreSequencer[i].wait = "active"
              /\ treeOperationSequencer # <<>>
              /\ treeOperationSequencer[1].kind = "updateChildren"
              /\ ~treeOperationSequencer[1].clearCache
              /\ last.op = "provide"

\* C5: for every repository, at most one load-more task is between setting
\* _repositoryLoadMore with setLoadMore(repo, true) and the end of the tree
\* update it awaits.
C5_OneLoadMoreOutstanding ==
    \A r \in Repos :
        Cardinality({i \in DOMAIN treeLoadMoreSequencer :
                        /\ treeLoadMoreSequencer[i].repo = r
                        /\ treeLoadMoreSequencer[i].pc = "awaiting"}) <= 1

\* A load-more awaits its tree update, whose provider call is suspended,
\* while a second trigger is queued and a refresh waits in the throttler.
C5_Witness ==
    /\ Len(treeLoadMoreSequencer) = 2
    /\ treeLoadMoreSequencer[1].pc = "awaiting"
    /\ treeLoadMoreSequencer[2].pc = "queued"
    /\ treeLoadMoreSequencer[2].repo = treeLoadMoreSequencer[1].repo
    /\ repositoryLoadMore
    /\ updateChildrenThrottler.queuedPromiseFactory = "clearCache"
    /\ inflight # EmptyBag

\* C10: no refresh() is lost: whenever the pane has nothing left to run (no
\* tree update pending in the throttler, no tree operation queued) and the
\* current repository has a cache entry, the entry has been dropped or
\* fetched again from skip 0 since the last refresh() was called.
C10_NoRefreshLost ==
    /\ ~updateChildrenThrottler.activePromise
    /\ treeOperationSequencer = <<>>
    /\ Repository # NoRepo
    => (state[Repository].present => ~refreshOwed)

\* C11: the tree operations of the view never overlap: at most one of them
\* has started and not finished, a provider call is only ever suspended for
\* that one operation, no two calls ever overlap, and a suspended call's
\* snapshot of the items is the cache entry it will append to (no
\* clearRepositoryState and no other fetch came in between).
C11_TreeOperationsNeverOverlap ==
    /\ Cardinality({i \in DOMAIN treeOperationSequencer :
                       treeOperationSequencer[i].pc # "queued"}) <= 1
    /\ BagCardinality(inflight) <= 1
    /\ inflight # EmptyBag =>
          /\ treeOperationSequencer # <<>>
          /\ treeOperationSequencer[1].pc = "fetching"
    /\ \A r \in Repos : ~overlap[r]
    /\ \A c \in BagToSet(inflight) :
          c.repo \in repositories =>
              c.existingHistoryItems = ExistingHistoryItems(state[c.repo])

\* A load-more update is suspended in its provider call, past two cached
\* items, while a refresh waits in the throttler for it to finish.
C11_Witness ==
    /\ treeOperationSequencer # <<>>
    /\ treeOperationSequencer[1].kind = "updateChildren"
    /\ ~treeOperationSequencer[1].clearCache
    /\ treeOperationSequencer[1].pc = "fetching"
    /\ updateChildrenThrottler.queuedPromiseFactory = "clearCache"
    /\ \E c \in BagToSet(inflight) : c.skip > 0 /\ state[c.repo].present

\* The tree updates of _updateChildren in the operation sequencer q.
UpdateOperations(q) == {i \in DOMAIN q : q[i].kind = "updateChildren"}

\* The load-more tasks of q that await the throttler promise w.
Awaiting(q, w) == {i \in DOMAIN q : q[i].wait = w}

\* The running tree update settles in this step.
UpdateSettles ==
    /\ treeOperationSequencer # <<>>
    /\ treeOperationSequencer[1].kind = "updateChildren"
    /\ treeOperationSequencer[1].pc # "queued"
    /\ treeOperationSequencer' = <<>> \/ treeOperationSequencer'[1].pc = "queued"

\* C12: the _updateChildren requests that arrive while a tree update runs
\* collapse into one follow-up: there is never more than one tree update in
\* the operation sequencer, and one only while the throttler's promise is
\* pending; requests wait only while an update runs; when the running update
\* settles with k >= 1 requests waiting, exactly one tree update is queued,
\* all k callers (the load-more tasks among them) now await it and none
\* waits any more, and the callers of the update that settled are done; with
\* no request waiting, no update follows.
C12_RequestsCollapseIntoOneFollowUp ==
    /\ [](/\ Cardinality(UpdateOperations(treeOperationSequencer)) =
                IF updateChildrenThrottler.activePromise THEN 1 ELSE 0
          /\ updateChildrenThrottler.queuedCallers >= 1
                <=> updateChildrenThrottler.queuedPromiseFactory # "none"
          /\ updateChildrenThrottler.queuedCallers >= 1
                => updateChildrenThrottler.activePromise
          /\ updateChildrenThrottler.activeCallers >= 1
                <=> updateChildrenThrottler.activePromise
          /\ Cardinality(Awaiting(treeLoadMoreSequencer, "active"))
                <= updateChildrenThrottler.activeCallers
          /\ Cardinality(Awaiting(treeLoadMoreSequencer, "queued"))
                <= updateChildrenThrottler.queuedCallers)
    /\ [][UpdateSettles =>
            IF updateChildrenThrottler.queuedCallers >= 1
            THEN /\ Cardinality(UpdateOperations(treeOperationSequencer')) = 1
                 /\ treeOperationSequencer'[Len(treeOperationSequencer')].pc = "queued"
                 /\ treeOperationSequencer'[Len(treeOperationSequencer')].kind = "updateChildren"
                 /\ updateChildrenThrottler'.activeCallers =
                       updateChildrenThrottler.queuedCallers
                 /\ updateChildrenThrottler'.queuedCallers = 0
                 /\ Cardinality(Awaiting(treeLoadMoreSequencer', "active")) =
                       Cardinality(Awaiting(treeLoadMoreSequencer, "queued"))
                 /\ Awaiting(treeLoadMoreSequencer', "queued") = {}
            ELSE /\ UpdateOperations(treeOperationSequencer') = {}
                 /\ updateChildrenThrottler' = ThrottlerIdle
                 /\ Awaiting(treeLoadMoreSequencer', "active") = {}]_vars

\* Two requests made while an update was running, a refresh() and a
\* load-more, await the one follow-up update, which is fetching.
C12_Witness ==
    /\ updateChildrenThrottler.activeCallers = 2
    /\ Cardinality(Awaiting(treeLoadMoreSequencer, "active")) = 1
    /\ Cardinality(UpdateOperations(treeOperationSequencer)) = 1
    /\ treeOperationSequencer[1].kind = "updateChildren"
    /\ treeOperationSequencer[1].pc = "fetching"

\* A refresh() is among the callers that await the running tree update: the
\* load-more tasks do not account for all of them.
RefreshAwaitsUpdate ==
    updateChildrenThrottler.activeCallers >
        Cardinality(Awaiting(treeLoadMoreSequencer, "active"))

\* C13: what is read for a refresh() is not the response of a provider call
\* started before it: when the tree update that every refresh() called so far
\* awaits settles having read a list of items, the cache has been cleared, or
\* at least fetched again from skip 0, since the last refresh() was called,
\* so the first page of the list comes from a call started after it.
C13_RefreshReadsOnlyLaterResponses ==
    [][/\ UpdateSettles
       /\ RefreshAwaitsUpdate
       /\ updateChildrenThrottler.queuedCallers = 0
       /\ last'.op \in {"hit", "resolve"}
       /\ last'.items # <<>>
       => ~refreshOwed]_vars

\* C14: setLoadMore(repo, flag) changes nothing when the repository has no
\* cache entry (no entry appears, no provider call starts); when it has one,
\* the step changes only that entry's loadMore flag: its items and group
\* snapshot, the other repositories' entries and the suspended calls stay.
C14_SetLoadMoreChangesOnlyTheFlag ==
    [][\A r \in Repos, flag \in BOOLEAN :
          SetLoadMore(r, flag) =>
              /\ inflight' = inflight
              /\ \A q \in Repos \ {r} : state'[q] = state[q]
              /\ state'[r].present = state[r].present
              /\ state'[r].items = state[r].items
              /\ state'[r].currentHistoryItemGroup = state[r].currentHistoryItemGroup
              /\ state'[r].loadMore = IF state[r].present THEN flag ELSE state[r].loadMore
              /\ ~state[r].present => state' = state]_vars

\* An entry with items has been marked for reload while the other repository
\* has no entry.
C14_Witness ==
    /\ last = NoEvent
    /\ state["r1"].present /\ state["r1"].loadMore /\ state["r1"].items # <<>>
    /\ ~state["r2"].present
    /\ inflight = EmptyBag

\* There is no current repository, or it has no history provider, or no
\* current group can be resolved for it: it has no cached snapshot and the
\* provider's current group is unset.
NothingToRead ==
    IF Repository = NoRepo THEN TRUE
    ELSE \/ historyProvider[Repository] = NoProvider
         \/ ~state[Repository].present /\ historyProvider[Repository] = NoGroup

\* C15: a getHistoryItems call made when there is no repository, no history
\* provider or no resolvable group returns the empty list at once: it does
\* not fail or suspend, starts no provideHistoryItems call and leaves every
\* cache entry as it is; and it returns early in no other case.
C15_NothingToReadReturnsEmpty ==
    [][last'.op \in {"early", "hit", "provide"} =>
          /\ NothingToRead <=> last'.op = "early"
          /\ last'.op = "early" =>
                /\ last'.items = <<>>
                /\ last'.repo = Repository
                /\ state' = state
                /\ inflight' = inflight]_vars

\* getHistoryItems returned [] for a repository whose provider has no current
\* group, while the other repository's entry and a suspended call stay.
C15_Witness ==
    /\ last.op = "early" /\ last.repo = "r2"
    /\ historyProvider["r2"] = NoGroup /\ ~state["r2"].present
    /\ state["r1"].present /\ state["r1"].items # <<>>
    /\ inflight # EmptyBag

\* The suspended calls that q has and p has not (or has fewer of).
NewCalls(p, q) == {c \in BagToSet(q) : CopiesIn(c, q) > CopiesIn(c, p)}

C17_ChildrenAreRowsThenOneLoadMore ==
    LET n == Len(last.items)
        k == Len(treeChildren)
    IN /\ \A i \in DOMAIN treeChildren :
              treeChildren[i].type = "historyItemLoadMore" => i = k /\ i > 1
       /\ last.op \in {"early", "hit", "resolve"} =>
              /\ k \in {n, n + 1}
              /\ \A i \in 1..n :
                    /\ treeChildren[i].type = "historyItemViewModel"
                    /\ treeChildren[i].historyItem = last.items[i]
              /\ k = n + 1 <=>
                    /\ Repository # NoRepo
                    /\ n > 0
                    /\ HasOutputSwimlanes(last.items[n])
              /\ k = n + 1 =>
                    /\ treeChildren[k].type = "historyItemLoadMore"
                    /\ treeChildren[k].repository = Repository

\* getChildren returned two history item rows and the load-more row.
C17_Witness ==
    /\ last.op = "resolve" /\ Len(last.items) = 2
    /\ Len(treeChildren) = 3
    /\ treeChildren[3].type = "historyItemLoadMore"

\* The names of the group, its remote and its base that are defined.
GroupNamesOf(group) == {group.name} \cup ({group.remote, group.base} \ {NoGroup})

\* C18: the colour map built from a group has exactly one entry for each
\* distinct name among the group's name, its remote's and its base's; a name
\* they share carries the colour set last in the order local, remote, base;
\* so for the group "main" whose remote and base are both "origin/main" the
\* map has one "origin/main" entry, with the base colour.
C18_LaterAssignmentWins ==
    DOMAIN colorMap # {} =>
        LET group == historyItemGroup
            names == DOMAIN colorMap \ {"*"}
        IN /\ names = GroupNamesOf(group)
           /\ \A k \in names :
                 colorMap[k] = IF k = group.base THEN historyItemGroupBase
                               ELSE IF k = group.remote THEN historyItemGroupRemote
                               ELSE historyItemGroupLocal
           /\ group = [name |-> "main", remote |-> "origin/main", base |-> "origin/main"]
                 => /\ names = {"main", "origin/main"}
                    /\ colorMap["origin/main"] = historyItemGroupBase
                    /\ colorMap["main"] = historyItemGroupLocal

\* The map of the group "main" with remote and base "origin/main" was built.
C18_Witness ==
    /\ historyItemGroup = [name |-> "main", remote |-> "origin/main", base |-> "origin/main"]
    /\ DOMAIN colorMap = {"main", "origin/main"}
    /\ colorMap["origin/main"] = historyItemGroupBase

\* C19: the colour map has the "*" entry if and only if the filter is 'all';
\* with an id list or the 'auto' filter its keys are only the names of the
\* group, its remote and its base.
C19_WildcardOnlyForAll ==
    DOMAIN colorMap # {} =>
        /\ "*" \in DOMAIN colorMap <=> historyItemGroupFilter = "all"
        /\ historyItemGroupFilter \in {"ids", "auto"} =>
              DOMAIN colorMap = GroupNamesOf(historyItemGroup)

\* The map was built under the 'all' filter and has the "*" entry beside the
\* three names of the group.
C19_Witness ==
    /\ historyItemGroupFilter = "all"
    /\ "*" \in DOMAIN colorMap
    /\ Cardinality(DOMAIN colorMap) = 4

\* C20: resolveHistoryItemGroupCommonAncestor never throws: it returns
\* undefined for an empty id list and whenever its git call, getMergeBase or
\* log, fails.
C20_CommonAncestorNeverThrows ==
    /\ commonAncestor.pc # "threw"
    /\ commonAncestor.pc = "returned" =>
          /\ commonAncestor.historyItemGroupIds = <<>> => commonAncestor.result = NoAncestor
          /\ commonAncestor.failed => commonAncestor.result = NoAncestor

\* The call for the current group alone returned undefined after its git
\* call had failed.
C20_Witness ==
    /\ commonAncestor.pc = "returned"
    /\ commonAncestor.failed
    /\ commonAncestor.historyItemGroupIds = <<historyItemGroup.name>>
    /\ commonAncestor.result = NoAncestor

\* C21: setRepository(r) with a repository r makes the graph repository r,
\* and it stays r when the active repository changes; setRepository('auto')
\* makes the graph repository the active repository, and under 'auto' it
\* follows every change of the active repository.
C21_SelectionPinsGraphRepository ==
    [][/\ \A sel \in Repos : SetRepository(sel) => GraphRepository' = sel
       /\ SetRepository("auto") => GraphRepository' = activeRepository'
       /\ activeRepository' # activeRepository =>
             IF selectedRepository # "auto"
             THEN GraphRepository' = selectedRepository /\ GraphRepository' = GraphRepository
             ELSE GraphRepository' = activeRepository']_vars

\* Repository r2 is selected and the active repository has changed away from
\* r1 since: the graph repository is still r2.
C21_Witness ==
    /\ selectedRepository = "r2"
    /\ activeRepository # "r1"
    /\ GraphRepository = "r2"

\* C22: every load-more operation that starts ends with _repositoryLoadMore
\* reset to false, also when the tree update it awaits fails: whenever the
\* flag is set it is reset later.
C22_LoadMoreFlagIsReset == repositoryLoadMore ~> ~repositoryLoadMore

\* C23: provideHistoryItems of the git provider never throws: it returns []
\* without a current group or without group ids, and when getCommit,
\* getEmptyTree or log fails; the view model's call therefore never rejects,
\* and a page whose log failed is cached as an empty page: the entry is left
\* holding the items it had, unmarked, exactly as by an empty page at the end
\* of the history.
C23_FailedPageIsAnEmptyPage ==
    /\ [](/\ provided.pc # "threw"
          /\ provided.pc = "returned" =>
                /\ provided.group = NoGroup \/ ~provided.hasIds => provided.items = <<>>
                /\ provided.failed => provided.items = <<>>
                /\ provided.limitKind = "number" /\ provided.git.log = "fail"
                      /\ provided.group # NoGroup /\ provided.hasIds => provided.failed)
    /\ [][\A c \in BagToSet(inflight), git \in GitOutcomes :
             GitProvideSettles(c, git) =>
                 /\ last'.op = "resolve"
                 /\ git.log = "fail" =>
                       /\ last'.page = <<>>
                       /\ state'[c.repo] = NewState(c, <<>>)
                       /\ state'[c.repo].items = c.existingHistoryItems
                       /\ ~state'[c.repo].loadMore]_vars

\* The first page of a repository with commits was read while log failed:
\* the entry holds no items and is not marked; and a direct call with a
\* limit { id } returned [] after getEmptyTree had failed.
C23_Witness ==
    /\ last.op = "resolve" /\ last.skip = 0 /\ last.page = <<>>
    /\ commits[last.repo] > 0 /\ historyProvider[last.repo] \in Groups
    /\ state[last.repo].present /\ state[last.repo].items = <<>>
    /\ provided.pc = "returned" /\ provided.failed
    /\ provided.limitKind = "id" /\ provided.git.getCommit = "root"

\* The group a run of onDidRunGitStatus publishes for branch b when HEAD
\* stays on b during the run.
ConsistentGroup(b) == GroupOfHEAD(b, BranchBase(b))

\* C24: when runs of onDidRunGitStatus overlap or HEAD changes while a run
\* awaits the merge base, every group published is consistent, its base
\* being the merge base of the branch that its name and remote describe,
\* and no run fails when HEAD became undefined during the await.
C24_PublishedGroupIsConsistent ==
    /\ ~statusFailed
    /\ publishedGroup # NoPublished =>
          publishedGroup \in {ConsistentGroup(b) : b \in Branches}

\* C25: a group published by the git provider has a base only if the merge
\* base differs from the upstream of HEAD in remote or name, so its remote
\* and its base never have the same name and the colour map keeps the remote
\* colour for the remote's name; with HEAD undefined the group published is
\* undefined.
C25_BaseDiffersFromRemote ==
    /\ [](/\ HEAD = NoHead => publishedGroup = NoPublished
          /\ publishedGroup # NoPublished =>
                /\ publishedGroup.base # NoGroup => publishedGroup.base # publishedGroup.remote
                /\ publishedGroup.remote # NoGroup /\ publishedGroup.remote # publishedGroup.name =>
                      GetGraphColorMap(publishedGroup, "auto")[publishedGroup.remote]
                          = historyItemGroupRemote)
    /\ [][\A i \in DOMAIN statusRuns :
             MergeBaseResolves(i) /\ HEAD # NoHead /\ publishedGroup'.base # NoGroup =>
                 LET mergeBase == BranchBase(statusRuns[i].branch)
                     upstream == UpstreamOf(HEAD)
                 IN /\ publishedGroup'.base = RemoteRefName(mergeBase)
                    /\ mergeBase.remote # upstream.remote \/ mergeBase.name # upstream.name]_vars

\* The group of branch dev is published: its remote is origin/dev and its
\* base origin/main; and the group of main, whose merge base is its
\* upstream, would have no base.
C25_Witness ==
    /\ publishedGroup = [name |-> "dev", remote |-> "origin/dev", base |-> "origin/main"]
    /\ HEAD = "dev"
    /\ ConsistentGroup("main").base = NoGroup

\* C26: no code block action makes the code of a filtered response leave the
\* chat: none of them writes it to the clipboard, applies it as an edit,
\* opens an editor with it or sends it to a terminal.
C26_FilteredCodeStaysInChat ==
    \A e \in effects :
        e.element = "filteredResponse" =>
            e.effect \notin {"clipboard", "edit", "openEditor", "terminal"}

\* The lines of a code block that are not all indentation, as reindent
\* tells them: those longer than their indentation.
NonEmptyLines(code, tabSize) ==
    {i \in DOMAIN code.lines : computeIndentation(code.lines[i], tabSize).length # Len(code.lines[i])}

LevelOfLine(code, tabSize, i) == computeIndentation(code.lines[i], tabSize).level

SmallestLevel(code, tabSize) ==
    CHOOSE m \in {LevelOfLine(code, tabSize, i) : i \in NonEmptyLines(code, tabSize)} :
        \A i \in NonEmptyLines(code, tabSize) : m <= LevelOfLine(code, tabSize, i)

TargetLevel == computeIndentation(selectionLine, formattingOptions.tabSize).level

\* reindent returns the code as it is when no line is more than indentation
\* or the smallest level is the target's, and then only.
ReindentUnchangedCases ==
    LET tabSize == formattingOptions.tabSize IN
    reindented # NoCode =>
        /\ NonEmptyLines(codeBlockContent, tabSize) = {} => reindented = codeBlockContent
        /\ /\ NonEmptyLines(codeBlockContent, tabSize) # {}
           /\ SmallestLevel(codeBlockContent, tabSize) = TargetLevel
           => reindented = codeBlockContent

\* The code is to be shifted: some line is more than indentation and the
\* smallest level is not the target's.
ReindentShifts ==
    /\ reindented # NoCode
    /\ NonEmptyLines(codeBlockContent, formattingOptions.tabSize) # {}
    /\ SmallestLevel(codeBlockContent, formattingOptions.tabSize) # TargetLevel

\* What holds of the lines that are more than indentation when the code is
\* shifted, and of a second call.
ReindentNonEmptyLines ==
    LET tabSize == formattingOptions.tabSize
        nonEmpty == NonEmptyLines(codeBlockContent, tabSize)
        shift == TargetLevel - SmallestLevel(codeBlockContent, tabSize)
    IN /\ ReindentShifts =>
             /\ Len(reindented.lines) = Len(codeBlockContent.lines)
             /\ NonEmptyLines(reindented, tabSize) = nonEmpty
             /\ \A i \in nonEmpty :
                   /\ LevelOfLine(reindented, tabSize, i) = LevelOfLine(codeBlockContent, tabSize, i) + shift
                   /\ LevelOfLine(codeBlockContent, tabSize, i) + shift >= 0
             /\ \E i \in nonEmpty : LevelOfLine(reindented, tabSize, i) = TargetLevel
             /\ \A i \in nonEmpty : LevelOfLine(reindented, tabSize, i) >= TargetLevel
             /\ \A i, j \in nonEmpty :
                   LevelOfLine(reindented, tabSize, i) - LevelOfLine(reindented, tabSize, j)
                       = LevelOfLine(codeBlockContent, tabSize, i) - LevelOfLine(codeBlockContent, tabSize, j)
       /\ reindentedAgain # NoCode => reindentedAgain = reindented

\* C27 as stated: when the code is shifted, the level of every line is
\* shifted by (target level - smallest level).
C27_EveryLineIsShifted ==
    /\ ReindentUnchangedCases
    /\ ReindentNonEmptyLines
    /\ ReindentShifts =>
          \A i \in DOMAIN codeBlockContent.lines :
              LevelOfLine(reindented, formattingOptions.tabSize, i)
                  = LevelOfLine(codeBlockContent, formattingOptions.tabSize, i)
                        + TargetLevel - SmallestLevel(codeBlockContent, formattingOptions.tabSize)

\* C27: reindent returns the code unchanged when no line is more than
\* indentation or the smallest level of the lines that are equals the
\* target level; otherwise the level of every line that is more than
\* indentation is shifted by (target level - smallest level), none of them
\* clamped, the least indented landing on the target level, and the level
\* of a line that is all indentation is shifted likewise but clamped at 0;
\* a second call returns the result unchanged.
C27_LinesShiftedEmptyOnesClamped ==
    /\ ReindentUnchangedCases
    /\ ReindentNonEmptyLines
    /\ ReindentShifts =>
          \A i \in DOMAIN codeBlockContent.lines :
              LevelOfLine(reindented, formattingOptions.tabSize, i)
                  = Max(0, LevelOfLine(codeBlockContent, formattingOptions.tabSize, i)
                               + TargetLevel - SmallestLevel(codeBlockContent, formattingOptions.tabSize))

\* A line of one tab and text is shifted to level 0 next to an empty line,
\* which stays at level 0, and the second call has been made.
C27_Witness ==
    /\ codeBlockContent.lines = <<<<>>, <<"\t", "x">>>>
    /\ selectionLine = <<>>
    /\ reindented.lines = <<<<>>, <<"x">>>>
    /\ reindentedAgain = reindented

\* C28: the call for the current group alone makes one repository call:
\* getMergeBase with the remote if there is one, else getMergeBase with the
\* base if there is one, else the log of the root commit of HEAD; for one
\* id that is not the current group's it returns undefined with no
\* repository call; for two ids or more it makes one getMergeBase call of
\* them all; the value returned is what the repository answered.
C28_OneCounterpartByPrecedence ==
    LET ids == commonAncestor.historyItemGroupIds
        made == commonAncestor.made
        group == historyItemGroup
    IN commonAncestor.pc \in {"awaiting", "returned"} =>
          /\ Len(ids) = 1 /\ ids[1] = group.name =>
                /\ Len(made) = 1
                /\ group.remote # NoGroup =>
                      made[1] = [git |-> "getMergeBase", args |-> <<ids[1], group.remote>>]
                /\ group.remote = NoGroup /\ group.base # NoGroup =>
                      made[1] = [git |-> "getMergeBase", args |-> <<ids[1], group.base>>]
                /\ group.remote = NoGroup /\ group.base = NoGroup =>
                      made[1] = [git |-> "log", args |-> <<"HEAD">>]
          /\ Len(ids) = 1 /\ ids[1] # group.name =>
                /\ commonAncestor.pc = "returned"
                /\ made = <<>>
                /\ commonAncestor.result = NoAncestor
          /\ Len(ids) >= 2 =>
                made = <<[git |-> "getMergeBase", args |-> ids]>>
          /\ commonAncestor.pc = "returned" /\ ~commonAncestor.failed =>
                commonAncestor.result = commonAncestor.answer

\* The call for the current group alone, which has a remote and a base,
\* returned the merge base with the remote.
C28_Witness ==
    /\ commonAncestor.pc = "returned"
    /\ historyItemGroup.remote # NoGroup
    /\ historyItemGroup.base # NoGroup
    /\ historyItemGroup.base # historyItemGroup.remote
    /\ commonAncestor.historyItemGroupIds = <<historyItemGroup.name>>
    /\ commonAncestor.made = <<[git |-> "getMergeBase",
                                args |-> <<historyItemGroup.name, historyItemGroup.remote>>]>>
    /\ commonAncestor.result = "h1"

\* The provider's group changes from a group to a group with the same id,
\* revision and remote id and another remote revision.
OnlyRemoteRevisionChanges ==
    /\ currentGroup # NoCurrentGroup
    /\ currentGroup' # NoCurrentGroup
    /\ DerivedHistoryItemGroup(currentGroup') = DerivedHistoryItemGroup(currentGroup)
    /\ currentGroup'.remoteRevision # currentGroup.remoteRevision

\* C29: a change of the remote revision alone calls refresh() if the tree
\* is scrolled to the top, else leaves the scroll position, calls no
\* refresh and sets the description "OUTDATED"; a change of the id, the
\* revision or the remote id to those of a group calls refresh(); a refresh
\* that completes clears the description and scrolls to the top.
C29_RemoteRevisionRefreshesAtTop ==
    [][/\ OnlyRemoteRevisionChanges /\ scrollTop = 0 =>
             refreshesPending' = refreshesPending + 1
       /\ OnlyRemoteRevisionChanges /\ scrollTop # 0 =>
             /\ refreshesPending' = refreshesPending
             /\ scrollTop' = scrollTop
             /\ titleDescription' = "OUTDATED"
       /\ /\ currentGroup' # NoCurrentGroup
          /\ DerivedHistoryItemGroup(currentGroup') # DerivedHistoryItemGroup(currentGroup)
          => refreshesPending' = refreshesPending + 1
       /\ RefreshCompletes => titleDescription' = "undefined" /\ scrollTop' = 0]_vars

====
